---- MODULE Spec2Model ----
(***************************************************************************)
(* Voice Notes MCP server: the protocol session of mcp_server.py           *)
(* (handle_message and its tools) and the cached tool core of server.py    *)
(* (VoiceNotesMCPServer with its TTLCache), both over one remote store of  *)
(* notes and projects.                                                     *)
(*                                                                         *)
(* Python dicts are records, JSON null is the record Null, a Python None   *)
(* that is formatted into text is the string "None", and a NULL column of  *)
(* the store is the string NULL.  Cache keys and messages are the strings  *)
(* the code builds.                                                        *)
(***************************************************************************)
EXTENDS Integers, Sequences, FiniteSets, TLC

VARIABLES
    notes,        \* the notes table: id -> row
    projects,     \* the projects table: id -> row
    cache,        \* server.py: self.cache, key -> [value, expires]
    now,          \* the cache timer
    initialized,  \* mcp_server.py: self.initialized
    refused,      \* the methods refused so far because the session was not initialized
    last,         \* the last request or tool call handled and what it produced
    calls,        \* the number of tool calls server.py has handled
    closed,       \* for each message loop, the line that ended it ("" while it runs)
    tasks,        \* server.py: the tool calls in flight, one coroutine each
    running,      \* the coroutine the event loop is running (None when it is free)
    environ       \* os.environ: the settings of the process (None when one is not set)

vars == <<notes, projects, cache, now, initialized, refused, last, calls, closed, tasks, running, environ>>

----------------------------------------------------------------------------
(* Bounds of the model *)

\* how many projects the store can hold (create_project stops there)
MaxProjects == 2
\* the clock advances in steps of TickStep up to MaxTime
TickStep == 35
MaxTime == 75

----------------------------------------------------------------------------
(* Values *)

Null == [null |-> TRUE]
NULL == "NULL"
None == "None"
EmptyDict == [k \in {} |-> None]

IsNull(v) == "null" \in DOMAIN v

StartsWith(s, p) == Len(s) >= Len(p) /\ SubSeq(s, 1, Len(p)) = p

\* str.__contains__ / SQL ilike %q% on lower-case text
Contains(s, q) == \E i \in 1..(Len(s) + 1) : i + Len(q) - 1 <= Len(s) /\ SubSeq(s, i, i + Len(q) - 1) = q

\* isinstance(v, str): a string prints in quotes, no other value does
IsStr(v) == SubSeq(ToString(v), 1, 1) = "\""

\* f"{v}" of a string or an integer
Str(v) == IF IsStr(v) THEN v ELSE ToString(v)

\* Python str(bool)
BoolStr(b) == IF b THEN "True" ELSE "False"

NoteIds == {"n1", "n2"}
ArgNoteIds == NoteIds \cup {"n9"}
ProjIdPool == <<"p1", "p2", "p3">>
ArgProjIds == {"p1", "p2", "p9"}
Queries == {"milk", "tea"}
Limits == {1, 2}

----------------------------------------------------------------------------
(* The remote store *)

NoteRow(processed, project, status, created, text) ==
    [is_processed |-> processed, project_id |-> project, transcription_status |-> status,
     created_at |-> created, modified_at |-> created, transcript |-> text]

InitNotes ==
    { [n \in NoteIds |-> IF n = "n1" THEN NoteRow(FALSE, NULL, "completed", 2, "buy milk") ELSE r] :
        r \in { NoteRow(FALSE, NULL, "completed", 1, "tea time"),
                NoteRow(FALSE, NULL, "pending", 1, "tea time"),
                NoteRow(TRUE, "p1", "completed", 1, "tea time") } }

ProjectRow(name, purpose, goal, archived, updated) ==
    [name |-> name, purpose |-> purpose, goal |-> goal, is_archived |-> archived, updated_at |-> updated]

InitProjects == [p \in {"p1"} |-> ProjectRow("home", None, None, FALSE, 0)]

\* the notes whose project reference is p
NotesOf(p) == {n \in DOMAIN notes : notes[n].project_id = p}

\* the ids of S, ordered by the column ord descending (order=<col>.desc)
RECURSIVE OrderDesc(_, _)
OrderDesc(S, ord) ==
    IF S = {} THEN << >>
    ELSE LET m == CHOOSE x \in S : \A y \in S : ord[y] <= ord[x]
         IN <<m>> \o OrderDesc(S \ {m}, ord)

\* the first n elements of a sequence (limit=n)
Take(s, n) == SubSeq(s, 1, IF n < Len(s) THEN n ELSE Len(s))

\* rows offset..offset+limit-1 of a sequence (range(offset, offset + limit - 1))
Range(s, offset, limit) ==
    SubSeq(s, offset + 1, IF offset + limit < Len(s) THEN offset + limit ELSE Len(s))

CreatedAt == [n \in DOMAIN notes |-> notes[n].created_at]

\* a Gateway request that failed: make_supabase_request returns {"error": ...}
GwError == "HTTP 500: upstream"

----------------------------------------------------------------------------
(* mcp_server.py: the tools of the protocol session (no cache).            *)
(* A tool yields [exc, result, gw, notes]: the exception it raised ("" for *)
(* none), the dict it returned, the Gateway requests it issued and the     *)
(* notes table it left.  gwok[i] tells whether its i-th request succeeds.  *)

Returned(result, gw, nts) == [exc |-> "", result |-> result, gw |-> gw, notes |-> nts, called |-> TRUE]
Raised(exc, gw, nts) == [exc |-> exc, result |-> EmptyDict, gw |-> gw, notes |-> nts, called |-> TRUE]
\* an exception of the dispatcher itself, before any tool is called
NotCalled(exc) == [exc |-> exc, result |-> EmptyDict, gw |-> 0, notes |-> notes, called |-> FALSE]

\* rows of a list query: id, transcript, created_at
McpListRow(n) == [id |-> n, transcript |-> notes[n].transcript, created_at |-> notes[n].created_at]
McpRows(ids) == [i \in 1..Len(ids) |-> McpListRow(ids[i])]

McpUnprocessedIds ==
    {n \in DOMAIN notes : ~notes[n].is_processed /\ notes[n].transcription_status = "completed"}

Mcp_list_unprocessed_notes(limit, gwok) ==
    IF gwok[1]
    THEN LET rows == McpRows(Take(OrderDesc(McpUnprocessedIds, CreatedAt), limit))
         IN Returned([notes |-> rows, count |-> Len(rows), has_more |-> (Len(rows) = limit)], 1, notes)
    ELSE Returned([error |-> GwError], 1, notes)

Mcp_read_note(note_id, gwok) ==
    IF gwok[1]
    THEN IF note_id \in DOMAIN notes
         THEN Returned([id |-> note_id] @@ notes[note_id], 1, notes)
         ELSE Returned([error |-> "Note " \o note_id \o " not found"], 1, notes)
    ELSE Returned([error |-> GwError], 1, notes)

\* the PATCH the Gateway applies: is_processed = true on the row with that id
PatchProcessed(ids) ==
    [n \in DOMAIN notes |-> IF n \in ids THEN [notes[n] EXCEPT !.is_processed = TRUE, !.modified_at = now]
                                          ELSE notes[n]]

\* PATCH answers with the list of updated rows (Prefer: return=representation),
\* and result.get("error") on a list raises AttributeError
Mcp_mark_as_processed(note_id, gwok) ==
    IF gwok[1]
    THEN Raised("'list' object has no attribute 'get'", 1, PatchProcessed({note_id}))
    ELSE Returned([error |-> GwError], 1, notes)

Mcp_search_notes(query, limit, gwok) ==
    IF gwok[1]
    THEN LET hit == {n \in DOMAIN notes : Contains(notes[n].transcript, query)}
             rows == McpRows(Take(OrderDesc(hit, CreatedAt), limit))
         IN Returned([notes |-> rows, count |-> Len(rows), query |-> query], 1, notes)
    ELSE Returned([error |-> GwError], 1, notes)

Mcp_get_inbox_stats(gwok) ==
    IF gwok[1] /\ gwok[2]
    THEN LET u == Cardinality(McpUnprocessedIds)
             t == Cardinality(DOMAIN notes)
         IN Returned([unprocessed_count |-> u, total_count |-> t, processed_count |-> t - u], 2, notes)
    ELSE Returned([error |-> "Failed to get stats"], 2, notes)

UpdatedAt == [p \in DOMAIN projects |-> projects[p].updated_at]

\* the projects rows as the Gateway returns them; note_count is a column of the projects
\* table that no tool writes: it holds the number of the project's notes when the store
\* keeps it current, and otherwise the value the insert left, 0
McpProjectRow(p, current) ==
    [id |-> p, name |-> projects[p].name, is_archived |-> projects[p].is_archived,
     note_count |-> IF current THEN Cardinality(NotesOf(p)) ELSE 0]

Mcp_list_projects(include_archived, gwok) ==
    IF gwok[1]
    THEN LET sel == {p \in DOMAIN projects : include_archived \/ ~projects[p].is_archived}
             ids == OrderDesc(sel, UpdatedAt)
             rows == [i \in 1..Len(ids) |-> McpProjectRow(ids[i], gwok[3])]
         IN Returned([projects |-> rows, count |-> Len(rows), include_archived |-> include_archived], 1, notes)
    ELSE Returned([error |-> GwError], 1, notes)

Mcp_get_project_notes(project_id, gwok) ==
    IF ~gwok[1] \/ project_id \notin DOMAIN projects
    THEN Returned([error |-> "Project " \o project_id \o " not found"], 1, notes)
    ELSE IF gwok[2]
         THEN LET rows == McpRows(OrderDesc({n \in DOMAIN notes : notes[n].project_id = project_id}, CreatedAt))
              IN Returned([project |-> McpProjectRow(project_id, gwok[3]), notes |-> rows, note_count |-> Len(rows)], 2, notes)
         ELSE Returned([error |-> GwError], 2, notes)

Mcp_search_project_notes(project_id, query, limit, gwok) ==
    IF gwok[1]
    THEN LET hit == {n \in DOMAIN notes : notes[n].project_id = project_id /\ Contains(notes[n].transcript, query)}
             rows == McpRows(Take(OrderDesc(hit, CreatedAt), limit))
         IN Returned([project_id |-> project_id, notes |-> rows, count |-> Len(rows), query |-> query], 1, notes)
    ELSE Returned([error |-> GwError], 1, notes)

Mcp_search_all_projects(query, gwok) ==
    LET mp == IF gwok[1] THEN {p \in DOMAIN projects : Contains(projects[p].name, query)} ELSE {}
        mn == IF gwok[2]
              THEN {n \in DOMAIN notes : notes[n].project_id # NULL /\ Contains(notes[n].transcript, query)}
              ELSE {}
    IN Returned([query |-> query, matching_projects |-> mp, matching_projects_count |-> Cardinality(mp),
                 notes_by_project |-> [p \in {notes[n].project_id : n \in mn} |-> {n \in mn : notes[n].project_id = p}],
                 total_matching_notes |-> Cardinality(mn)], 2, notes)

\* arguments["k"]: KeyError when the key is missing, TypeError when arguments is null
Has(arguments, k) == ~IsNull(arguments) /\ k \in DOMAIN arguments
\* arguments.get("k", default): AttributeError when arguments is null
Get(arguments, k, default) == IF k \in DOMAIN arguments THEN arguments[k] ELSE default

McpToolNames == {"list_unprocessed_notes", "read_note", "mark_as_processed", "search_notes",
                 "get_inbox_stats", "list_projects", "get_project_notes", "search_project_notes",
                 "search_all_projects"}

\* the if/elif chain of handle_tools_call
McpDispatch(tool_name, arguments, gwok) ==
    LET keyError(k) == NotCalled(IF IsNull(arguments) THEN "'NoneType' object is not subscriptable"
                                                     ELSE "'" \o k \o "'")
        attrError == NotCalled("'NoneType' object has no attribute 'get'")
    IN CASE tool_name = "list_unprocessed_notes" ->
              IF IsNull(arguments) THEN attrError
              ELSE Mcp_list_unprocessed_notes(Get(arguments, "limit", 50), gwok)
         [] tool_name = "read_note" ->
              IF Has(arguments, "note_id") THEN Mcp_read_note(arguments["note_id"], gwok)
              ELSE keyError("note_id")
         [] tool_name = "mark_as_processed" ->
              IF Has(arguments, "note_id") THEN Mcp_mark_as_processed(arguments["note_id"], gwok)
              ELSE keyError("note_id")
         [] tool_name = "search_notes" ->
              IF Has(arguments, "query") THEN Mcp_search_notes(arguments["query"], Get(arguments, "limit", 20), gwok)
              ELSE keyError("query")
         [] tool_name = "get_inbox_stats" -> Mcp_get_inbox_stats(gwok)
         [] tool_name = "list_projects" ->
              IF IsNull(arguments) THEN attrError
              ELSE Mcp_list_projects(Get(arguments, "include_archived", FALSE), gwok)
         [] tool_name = "get_project_notes" ->
              IF Has(arguments, "project_id") THEN Mcp_get_project_notes(arguments["project_id"], gwok)
              ELSE keyError("project_id")
         [] tool_name = "search_project_notes" ->
              IF ~Has(arguments, "project_id") THEN keyError("project_id")
              ELSE IF ~Has(arguments, "query") THEN keyError("query")
              ELSE Mcp_search_project_notes(arguments["project_id"], arguments["query"],
                                            Get(arguments, "limit", 20), gwok)
         [] tool_name = "search_all_projects" ->
              IF Has(arguments, "query") THEN Mcp_search_all_projects(arguments["query"], gwok)
              ELSE keyError("query")
         [] OTHER -> NotCalled("Unknown tool: " \o tool_name)

----------------------------------------------------------------------------
(* mcp_server.py: the protocol session *)

InitializeResult ==
    [protocolVersion |-> "2024-11-05",
     capabilities |-> [tools |-> EmptyDict, logging |-> EmptyDict],
     serverInfo |-> [name |-> "voice-notes-mcp", version |-> "1.0.0"]]

\* the static catalog of handle_tools_list: name and required parameters
McpCatalog ==
    << [name |-> "list_unprocessed_notes", required |-> {}],
       [name |-> "read_note", required |-> {"note_id"}],
       [name |-> "mark_as_processed", required |-> {"note_id"}],
       [name |-> "search_notes", required |-> {"query"}],
       [name |-> "get_inbox_stats", required |-> {}],
       [name |-> "list_projects", required |-> {}],
       [name |-> "get_project_notes", required |-> {"project_id"}],
       [name |-> "search_project_notes", required |-> {"project_id", "query"}],
       [name |-> "search_all_projects", required |-> {"query"}] >>

NotInitialized == "Server not initialized"

\* handle_tools_list: the catalog, or the exception it raises
handle_tools_list ==
    IF ~initialized THEN NotCalled(NotInitialized)
    ELSE [exc |-> "", result |-> [tools |-> McpCatalog], gw |-> 0, notes |-> notes, called |-> FALSE]

\* the result of a tool wrapped as one text block; an exception is raised again
TextContent(r) ==
    IF r.exc # "" THEN r
    ELSE [r EXCEPT !.result = [content |-> <<[type |-> "text", text |-> r.result]>>]]

\* handle_tools_call without its initialization check
handle_tools_call_Unchecked(params, gwok) ==
    IF IsNull(params) THEN NotCalled("'NoneType' object has no attribute 'get'")
    ELSE TextContent(McpDispatch(Get(params, "name", None), Get(params, "arguments", EmptyDict), gwok))

\* handle_tools_call: the tool's result wrapped as one text block, or the exception
handle_tools_call(params, gwok) ==
    IF ~initialized THEN NotCalled(NotInitialized)
    ELSE IF IsNull(params) THEN NotCalled("'NoneType' object has no attribute 'get'")
    ELSE TextContent(McpDispatch(Get(params, "name", None), Get(params, "arguments", EmptyDict), gwok))

NoResponse == [none |-> TRUE]
ResultResponse(id, result) == [jsonrpc |-> "2.0", id |-> id, result |-> result]
ErrorResponse(id, code, message) ==
    [jsonrpc |-> "2.0", id |-> id, error |-> [code |-> code, message |-> message]]

MethodNotFound == -32601
InternalError == -32603

\* what a handled message leaves: the response line (or none), the session state,
\* the notes table, the Gateway requests issued and whether a tool was called
Handled(response, ini, r) ==
    [response |-> response, initialized |-> ini, notes |-> r.notes, gw |-> r.gw, called |-> r.called,
     exc |-> r.exc]

\* the else branch answering with the internal-error code
MethodNotFoundResponse_WrongCode(msg_id, method) ==
    ErrorResponse(msg_id, InternalError, "Method not found: " \o method)

\* the else branch of handle_message and of handle_mcp_message
MethodNotFoundResponse(msg_id, method) ==
    ErrorResponse(msg_id, MethodNotFound, "Method not found: " \o method)

\* an except clause that drops the session back to uninitialized
Respond_ResetsOnError(msg_id, r) ==
    Handled(IF r.exc = "" THEN ResultResponse(msg_id, r.result)
            ELSE ErrorResponse(msg_id, InternalError, "Internal error: " \o r.exc),
            initialized /\ r.exc = "", r)

\* an except clause that answers without the id of the request
Respond_NoId(msg_id, r) ==
    Handled(IF r.exc = "" THEN ResultResponse(msg_id, r.result)
            ELSE ErrorResponse(None, InternalError, "Internal error: " \o r.exc),
            initialized, r)

\* the try/except of handle_message around a handler's outcome r
Respond(msg_id, r) ==
    Handled(IF r.exc = "" THEN ResultResponse(msg_id, r.result)
            ELSE ErrorResponse(msg_id, InternalError, "Internal error: " \o r.exc),
            initialized, r)

\* a notifications/initialized that marks the session initialized
Acknowledge_Initializes == Handled(NoResponse, TRUE, NotCalled(""))

\* the notifications/initialized branch: return None
Acknowledge == Handled(NoResponse, initialized, NotCalled(""))

\* handle_message(server, message) for a message that is a JSON object
handle_message(message, gwok) ==
    LET method == Get(message, "method", None)
        params == Get(message, "params", EmptyDict)
        msg_id == Get(message, "id", None)
    IN CASE method = "initialize" ->
              Handled(ResultResponse(msg_id, InitializeResult), TRUE, NotCalled(""))
         [] method = "notifications/initialized" -> Acknowledge
         [] method = "tools/list" -> Respond(msg_id, handle_tools_list)
         [] method = "tools/call" -> Respond(msg_id, handle_tools_call(params, gwok))
         [] OTHER ->
              Handled(MethodNotFoundResponse(msg_id, method), initialized, NotCalled(""))

(* The requests a client sends *)
MsgIds == {"7"}
Methods == {"initialize", "notifications/initialized", "tools/list", "tools/call", "ping"}

\* the argument dicts sent with a tool name: null, empty, and the tool's own keys
ArgumentsFor(t) ==
    {Null, EmptyDict}
    \cup (IF t \in {"read_note", "mark_as_processed"}
          THEN {[note_id |-> n] : n \in ArgNoteIds} ELSE {})
    \cup (IF t = "list_unprocessed_notes" THEN {[limit |-> l] : l \in Limits} ELSE {})
    \cup (IF t \in {"search_notes", "search_all_projects"} THEN {[query |-> q] : q \in Queries} ELSE {})
    \cup (IF t = "search_notes" THEN {[query |-> q, limit |-> 1] : q \in Queries} ELSE {})
    \cup (IF t = "get_project_notes" THEN {[project_id |-> p] : p \in ArgProjIds} ELSE {})
    \cup (IF t = "search_project_notes"
          THEN {[project_id |-> "p1"]} \cup {[project_id |-> "p1", query |-> q] : q \in Queries} ELSE {})
    \cup (IF t = "list_projects" THEN {[include_archived |-> b] : b \in BOOLEAN} ELSE {})

ToolNamesSent == McpToolNames \cup {"get_project", "bogus"}

CallParams ==
    {Null, EmptyDict, [arguments |-> [note_id |-> "n1"]]}
    \cup {[name |-> t] : t \in ToolNamesSent}
    \cup UNION {{[name |-> t, arguments |-> a] : a \in ArgumentsFor(t)} : t \in ToolNamesSent}

\* requests with an id, and requests without one (message.get("id") is then None)
Messages ==
    {[method |-> "tools/call", id |-> i, params |-> p] : i \in MsgIds, p \in CallParams}
    \cup {[method |-> "tools/call", params |-> p] :
            p \in {Null, [name |-> "bogus"], [name |-> "read_note", arguments |-> [note_id |-> "n1"]]}}
    \cup {[method |-> "tools/call", id |-> i] : i \in MsgIds}
    \cup {[method |-> m, id |-> i, params |-> p] : m \in Methods \ {"tools/call"}, i \in MsgIds, p \in {Null, EmptyDict}}
    \cup {[method |-> m] : m \in Methods \ {"tools/call"}}
    \cup {[id |-> i] : i \in MsgIds}

AllOk == [i \in 1..3 |-> TRUE]
\* which Gateway requests of a call fail: any of them may (the second matters to
\* the tools that issue two); gwok[3] tells whether the store keeps the note_count column
\* of the projects current (it matters to the tools that read the column)
GwOutcomes(message) ==
    LET name == Get(Get(message, "params", EmptyDict), "name", None)
    IN IF Get(message, "method", None) # "tools/call" \/ IsNull(Get(message, "params", EmptyDict))
       THEN {AllOk}
       ELSE IF name \in {"get_inbox_stats", "search_all_projects"} THEN {g \in [1..3 -> BOOLEAN] : g[3]}
       ELSE IF name = "get_project_notes" THEN [1..3 -> BOOLEAN]
       ELSE IF name = "list_projects" THEN {g \in [1..3 -> BOOLEAN] : g[2]}
       ELSE {[i \in 1..3 |-> b \/ i > 1] : b \in BOOLEAN}

\* the first Gateway request of a call that fails, if the call gets as far (0: none)
FirstFailure(gwok) == IF ~gwok[1] THEN 1 ELSE IF ~gwok[2] THEN 2 ELSE 0

\* what a step of a message loop records of the message it handled
Record(server, message, gwok, h) ==
    [server |-> server, failed |-> FirstFailure(gwok), method |-> Get(message, "method", None), id |-> Get(message, "id", None),
     name |-> IF IsNull(Get(message, "params", EmptyDict)) THEN None
              ELSE Get(Get(message, "params", EmptyDict), "name", None),
     was |-> initialized, after_error |-> (last.exc # ""),
     response |-> h.response, gw |-> h.gw, called |-> h.called, exc |-> h.exc, line |-> "object"]

IsRefusal(response) ==
    /\ "error" \in DOMAIN response
    /\ response.error.message = "Internal error: " \o NotInitialized

\* mcp_server.py, one line of the message loop holding a JSON object: handle_message,
\* then the response line
HandleMessageOf(messages) ==
    \E message \in messages : \E gwok \in GwOutcomes(message) :
        \E h \in {handle_message(message, gwok)} :
           /\ closed["mcp_server"] = ""
           /\ initialized' = h.initialized
           /\ notes' = h.notes
           /\ refused' = IF IsRefusal(h.response) THEN refused \cup {Get(message, "method", None)} ELSE refused
           /\ last' = Record("mcp_server", message, gwok, h)
           /\ UNCHANGED <<projects, cache, now, calls, closed, tasks, running, environ>>

HandleMessage == HandleMessageOf(Messages)

----------------------------------------------------------------------------
(* simple_server.py: the message handler without a handshake *)

\* PATCH without Prefer: return=representation answers with an empty body, which
\* json.loads rejects inside make_supabase_request: an error dict after the update
Simple_mark_as_processed(note_id, gwok) ==
    IF gwok[1]
    THEN Returned([error |-> "Expecting value: line 1 column 1 (char 0)"], 1, PatchProcessed({note_id}))
    ELSE Returned([error |-> GwError], 1, notes)

SimpleCatalog ==
    << [name |-> "list_unprocessed_notes"], [name |-> "read_note"], [name |-> "mark_as_processed"],
       [name |-> "search_notes"], [name |-> "get_inbox_stats"] >>

\* the if/elif chain of handle_mcp_message under tools/call
SimpleDispatch(tool_name, tool_args, gwok) ==
    LET keyError(k) == NotCalled(IF IsNull(tool_args) THEN "'NoneType' object is not subscriptable"
                                                     ELSE "'" \o k \o "'")
    IN CASE tool_name = "list_unprocessed_notes" ->
              IF IsNull(tool_args) THEN NotCalled("'NoneType' object has no attribute 'get'")
              ELSE Mcp_list_unprocessed_notes(Get(tool_args, "limit", 50), gwok)
         [] tool_name = "read_note" ->
              IF Has(tool_args, "note_id") THEN Mcp_read_note(tool_args["note_id"], gwok)
              ELSE keyError("note_id")
         [] tool_name = "mark_as_processed" ->
              IF Has(tool_args, "note_id") THEN Simple_mark_as_processed(tool_args["note_id"], gwok)
              ELSE keyError("note_id")
         [] tool_name = "search_notes" ->
              IF Has(tool_args, "query")
              THEN Mcp_search_notes(tool_args["query"], Get(tool_args, "limit", 20), gwok)
              ELSE keyError("query")
         [] tool_name = "get_inbox_stats" -> Mcp_get_inbox_stats(gwok)
         [] OTHER -> [NotCalled("") EXCEPT !.result = [error |-> "Unknown tool: " \o tool_name]]

\* handle_mcp_message(server, message) for a message that is a JSON object
handle_mcp_message(message, gwok) ==
    LET method == Get(message, "method", None)
        params == Get(message, "params", EmptyDict)
        msg_id == Get(message, "id", None)
    IN CASE method = "tools/list" ->
              Handled(ResultResponse(msg_id, [tools |-> SimpleCatalog]), initialized, NotCalled(""))
         [] method = "tools/call" ->
              IF IsNull(params)
              THEN Respond(msg_id, NotCalled("'NoneType' object has no attribute 'get'"))
              ELSE Respond(msg_id, TextContent(SimpleDispatch(Get(params, "name", None),
                                                              Get(params, "arguments", EmptyDict), gwok)))
         [] OTHER ->
              Handled(MethodNotFoundResponse(msg_id, method), initialized, NotCalled(""))

\* simple_server.py, one line of the message loop holding a JSON object
SimpleHandleMessageOf(messages) ==
    \E message \in messages : \E gwok \in GwOutcomes(message) :
        \E h \in {handle_mcp_message(message, gwok)} :
           /\ closed["simple_server"] = ""
           /\ notes' = h.notes
           /\ last' = Record("simple_server", message, gwok, h)
           /\ UNCHANGED <<projects, cache, now, initialized, refused, calls, closed, tasks, running, environ>>

SimpleHandleMessage == SimpleHandleMessageOf(Messages)

NoMessage == [server |-> None, failed |-> 0, method |-> None, id |-> None, name |-> None, was |-> FALSE,
              after_error |-> FALSE, response |-> NoResponse, gw |-> 0, called |-> FALSE, exc |-> "",
              line |-> None]

\* the coroutines of tool calls, none of them in flight
TaskIds == {"t1", "t2"}
NoTasks == [t \in TaskIds |-> [pc |-> "idle", tool |-> None, fetched |-> EmptyDict]]

\* both message loops are running
Running == [s \in {"mcp_server", "simple_server"} |-> ""]

\* an environment in which every setting the constructors read is set
Configured ==
    [SUPABASE_URL |-> "url", SUPABASE_KEY |-> "key", SUPABASE_SERVICE_ROLE_KEY |-> "service",
     SUPABASE_ANON_KEY |-> "anon"]

StoreInit ==
    /\ notes \in InitNotes
    /\ projects = InitProjects

SessionInit ==
    /\ StoreInit
    /\ cache = EmptyDict
    /\ now = 0
    /\ initialized = FALSE
    /\ refused = {}
    /\ last = NoMessage
    /\ calls = 0
    /\ closed = Running
    /\ environ = Configured
    /\ tasks = NoTasks
    /\ running = None

\* the session of mcp_server.py
SessionNext == HandleMessage

SessionSpec == SessionInit /\ [][SessionNext]_vars

\* the two hand-written message handlers, mcp_server.py and simple_server.py, over one store
HandlersNext == HandleMessage \/ SimpleHandleMessage

HandlersSpec == SessionInit /\ [][HandlersNext]_vars

----------------------------------------------------------------------------
(* The message loops (main) on the lines that hold no JSON object *)

\* end of input, an empty line, text that is not JSON, and JSON that is not an
\* object (a list, a string, a number, null)
LineKinds == {"eof", "blank", "malformed", "nonobject"}

\* message.get raises AttributeError on a value that is not a dict, in the try of the
\* handler and again at message.get("id") in its except clause: the exception
\* leaves the handler
NotADict == "'list' object has no attribute 'get'"

\* what a loop does with a line: whether it leaves the loop, and the exception logged
Break == [closes |-> TRUE, exc |-> ""]
Continue(exc) == [closes |-> FALSE, exc |-> exc]

\* mcp_server.py main: break on end of input; continue on an empty line, on
\* JSONDecodeError, and on any exception of handle_message
\* a loop that ends on a line that is not JSON
McpMainLine_StopsOnMalformed(kind) ==
    CASE kind = "eof" -> Break
      [] kind = "blank" -> Continue("")
      [] kind = "malformed" -> [closes |-> TRUE, exc |-> "Expecting value: line 1 column 1 (char 0)"]
      [] kind = "nonobject" -> Continue(NotADict)

McpMainLine(kind) ==
    CASE kind = "eof" -> Break
      [] kind = "blank" -> Continue("")
      [] kind = "malformed" -> Continue("Expecting value: line 1 column 1 (char 0)")
      [] kind = "nonobject" -> Continue(NotADict)

\* simple_server.py main: break on end of input; json.loads of an empty line raises
\* JSONDecodeError, which is logged; any other exception is logged and breaks
SimpleMainLine(kind) ==
    CASE kind = "eof" -> Break
      [] kind \in {"blank", "malformed"} -> Continue("Expecting value: line 1 column 1 (char 0)")
      [] kind = "nonobject" -> [closes |-> TRUE, exc |-> NotADict]

\* what a loop records of such a line: no request, no response line
LineRecord(server, kind, out) ==
    [server |-> server, failed |-> 0, method |-> None, id |-> None, name |-> None, was |-> initialized,
     after_error |-> (last.exc # ""), response |-> NoResponse, gw |-> 0, called |-> FALSE,
     exc |-> out.exc, line |-> kind]

ReadLineOf(server, kind, out) ==
    /\ closed[server] = ""
    /\ closed' = IF out.closes THEN [closed EXCEPT ![server] = kind] ELSE closed
    /\ last' = LineRecord(server, kind, out)
    /\ UNCHANGED <<notes, projects, cache, now, initialized, refused, calls, tasks, running, environ>>

\* mcp_server.py, one turn of the message loop on a line that holds no JSON object
ReadLine == \E kind \in LineKinds : ReadLineOf("mcp_server", kind, McpMainLine(kind))

\* simple_server.py, one turn of the message loop on a line that holds no JSON object
SimpleReadLine == \E kind \in LineKinds : ReadLineOf("simple_server", kind, SimpleMainLine(kind))

\* the requests sent between the lines that hold no JSON object: the handshake, the
\* catalog, an unknown method, and calls of a tool that writes, of tools that read and
\* of a name that is no tool
LoopCallParams ==
    {Null, [name |-> "bogus"], [name |-> "get_inbox_stats"],
     [name |-> "mark_as_processed", arguments |-> [note_id |-> "n1"]],
     [name |-> "read_note", arguments |-> [note_id |-> "n9"]],
     [name |-> "list_unprocessed_notes", arguments |-> [limit |-> 1]]}

LoopMessages ==
    {[method |-> "tools/call", id |-> i, params |-> p] : i \in MsgIds, p \in LoopCallParams}
    \cup {[method |-> m, id |-> i, params |-> EmptyDict] : m \in Methods \ {"tools/call"}, i \in MsgIds}
    \cup {[method |-> m] : m \in Methods \ {"tools/call"}}
    \cup {[id |-> i] : i \in MsgIds}

LoopHandleMessage == HandleMessageOf(LoopMessages)
LoopSimpleHandleMessage == SimpleHandleMessageOf(LoopMessages)

\* the two message loops, on every kind of input line
LoopNext == LoopHandleMessage \/ LoopSimpleHandleMessage \/ ReadLine \/ SimpleReadLine

LoopSpec == SessionInit /\ [][LoopNext]_vars

----------------------------------------------------------------------------
(* server.py: the cache, a cachetools TTLCache(maxsize=100, ttl=60).       *)
(* cache maps each resident key to [value, expires]; an entry is in the    *)
(* cache while the timer is before its expires.                            *)

maxsize == 100
ttl == 60

CacheHas_Resident(key) == key \in DOMAIN cache

\* key in self.cache
CacheHas(key) == key \in DOMAIN cache /\ now < cache[key].expires

\* the keys self.cache.keys() iterates over: those that have not expired
Live(c) == {k \in DOMAIN c : now < c[k].expires}

Remove(c, keys) == [k \in DOMAIN c \ keys |-> c[k]]

\* popitem while the cache is full: the entry that expires first goes first
RECURSIVE Evict(_)
Evict(c) ==
    IF Cardinality(DOMAIN c) + 1 <= maxsize THEN c
    ELSE Evict(Remove(c, {CHOOSE k \in DOMAIN c : \A j \in DOMAIN c : c[k].expires <= c[j].expires}))

Insert(c, key, value) ==
    [k \in DOMAIN c \cup {key} |-> IF k = key THEN [value |-> value, expires |-> now + ttl] ELSE c[k]]

\* self.cache[key] = value: expired entries are dropped, room is made, the entry is
\* stored with a fresh time-to-live
CacheSet(c, key, value) ==
    IF key \in Live(c) THEN Insert(Remove(c, DOMAIN c \ Live(c)), key, value)
    ELSE Insert(Evict(Remove(c, DOMAIN c \ Live(c))), key, value)

\* an invalidation that leaves the inbox listings in the cache
_invalidate_note_cache_KeepsListings(c, note_id) ==
    Remove(c, {key \in Live(c) : key = "note_" \o note_id \/ key = "inbox_stats"})

\* an invalidation that empties the cache
_invalidate_note_cache_ClearsAll(c, note_id) == EmptyDict

_invalidate_note_cache_KeepsStats(c, note_id) ==
    Remove(c, {key \in Live(c) : StartsWith(key, "unprocessed_") \/ key = "note_" \o note_id})

_invalidate_note_cache_KeepsNote(c, note_id) ==
    Remove(c, {key \in Live(c) : StartsWith(key, "unprocessed_") \/ key = "inbox_stats"})

_invalidate_note_cache(c, note_id) ==
    Remove(c, {key \in Live(c) : \/ StartsWith(key, "unprocessed_")
                                 \/ key = "note_" \o note_id
                                 \/ key = "inbox_stats"})

\* an invalidation that leaves the per-project note listings
_invalidate_projects_cache_ListingsOnly(c) ==
    Remove(c, {key \in Live(c) : StartsWith(key, "projects_")})

_invalidate_projects_cache(c) ==
    Remove(c, {key \in Live(c) : StartsWith(key, "projects_") \/ StartsWith(key, "project_notes_")})

_invalidate_project_cache_Nothing(c, project_id) == c

_invalidate_project_cache(c, project_id) ==
    Remove(c, {key \in Live(c) : \/ key = "project_" \o project_id
                                 \/ StartsWith(key, "project_notes_" \o project_id)})

----------------------------------------------------------------------------
(* server.py: the tools of VoiceNotesMCPServer.                            *)
(* A tool yields [result, cache, notes, projects, gw, hit, key]: the dict   *)
(* it returns, the cache and the tables it leaves, the Gateway requests it *)
(* issued, whether it answered from the cache and the cache key it used.   *)
(* fail is the index of the request of the call that raises (0: none).     *)

Done(result, c, nts, prj, gw, hit) ==
    [result |-> result, cache |-> c, notes |-> nts, projects |-> prj, gw |-> gw, hit |-> hit, key |-> ""]

\* return self.cache[cache_key]
Hit(key) == [Done(cache[key].value, cache, notes, projects, 0, TRUE) EXCEPT !.key = key]
\* a read that queried the Gateway gw times and caches what it returns
Fetched_NotStored(key, result, gw) ==
    [Done(result, cache, notes, projects, gw, FALSE) EXCEPT !.key = key]

Fetched(key, result, gw) ==
    [Done(result, CacheSet(cache, key, result), notes, projects, gw, FALSE) EXCEPT !.key = key]
\* a call that leaves the cache and the store as they were
Failed(result, gw) == Done(result, cache, notes, projects, gw, FALSE)

\* the exception a failing Gateway request raises, as str(e)
GwException == "gateway request failed"

\* a filter that lets the processed notes through
InboxIds_WithProcessed ==
    {n \in DOMAIN notes : /\ notes[n].project_id = NULL
                          /\ notes[n].transcription_status = "completed"}

InboxIds ==
    {n \in DOMAIN notes : /\ notes[n].project_id = NULL
                          /\ ~notes[n].is_processed
                          /\ notes[n].transcription_status = "completed"}

ListRow(n) == [id |-> n, transcript |-> notes[n].transcript, created_at |-> notes[n].created_at]
ListRows(ids) == [i \in 1..Len(ids) |-> ListRow(ids[i])]

\* has_more only when more rows than the limit came back
Listing_MoreWhenOver(rows, limit) == [notes |-> rows, count |-> Len(rows), has_more |-> (Len(rows) > limit)]

Listing(rows, limit) == [notes |-> rows, count |-> Len(rows), has_more |-> (Len(rows) = limit)]

list_unprocessed_notes(limit, offset, fail) ==
    LET cache_key == "unprocessed_" \o ToString(limit) \o "_" \o ToString(offset)
    IN IF CacheHas(cache_key) THEN Hit(cache_key)
       ELSE IF fail = 1
            THEN Failed([error |-> GwException, notes |-> << >>, count |-> 0, has_more |-> FALSE], 1)
            ELSE Fetched(cache_key,
                         Listing(ListRows(Range(OrderDesc(InboxIds, CreatedAt), offset, limit)), limit), 1)

\* the row of select("*, projects(id, name)") with the project flattened onto it
NoteData(n) ==
    [id |-> n] @@ notes[n] @@
    (IF notes[n].project_id = NULL THEN [projects |-> Null]
     ELSE [projects |-> [id |-> notes[n].project_id, name |-> projects[notes[n].project_id].name],
           project_name |-> projects[notes[n].project_id].name])

\* .single().execute() when no row matches: the client either answers with data None
\* (the answer the tests mock) or raises, as PostgREST refuses an object request that
\* matches no row; str(e) of that exception is ZeroRows
ZeroRows == "JSON object requested, multiple (or no) rows returned"

read_note(note_id, single_raises, fail) ==
    LET cache_key == "note_" \o note_id
    IN IF CacheHas(cache_key) THEN Hit(cache_key)
       ELSE IF fail = 1 THEN Failed([error |-> GwException], 1)
       ELSE IF note_id \in DOMAIN notes THEN Fetched(cache_key, NoteData(note_id), 1)
       ELSE IF single_raises THEN Failed([error |-> ZeroRows], 1)
       ELSE Failed([error |-> "Note " \o note_id \o " not found"], 1)

\* update(...).eq("id", ...) / .in_("id", ...): the rows of the ids that exist, patched
UpdateNotes(ids, patch) ==
    [n \in DOMAIN notes |-> IF n \in ids THEN patch @@ notes[n] ELSE notes[n]]

ProcessedPatch == [is_processed |-> TRUE, modified_at |-> now]

\* a mark_as_processed that invalidates also when no row was updated
mark_as_processed_InvalidatesAnyway(note_id, fail) ==
    IF fail = 1 THEN Failed([error |-> GwException], 1)
    ELSE IF IsStr(note_id) /\ note_id \in DOMAIN notes
         THEN Done([success |-> TRUE, note_id |-> note_id], _invalidate_note_cache(cache, note_id),
                   UpdateNotes({note_id}, ProcessedPatch), projects, 1, FALSE)
         ELSE Done([error |-> "Failed to mark note " \o Str(note_id) \o " as processed"],
                   _invalidate_note_cache(cache, Str(note_id)), notes, projects, 1, FALSE)

mark_as_processed(note_id, fail) ==
    IF fail = 1 THEN Failed([error |-> GwException], 1)
    ELSE IF IsStr(note_id) /\ note_id \in DOMAIN notes
         THEN Done([success |-> TRUE, note_id |-> note_id], _invalidate_note_cache(cache, note_id),
                   UpdateNotes({note_id}, ProcessedPatch), projects, 1, FALSE)
         ELSE Failed([error |-> "Failed to mark note " \o Str(note_id) \o " as processed"], 1)

\* for note_id in note_ids: self._invalidate_note_cache(note_id)
RECURSIVE InvalidateNotes(_, _)
InvalidateNotes(c, note_ids) ==
    IF note_ids = << >> THEN c
    ELSE InvalidateNotes(_invalidate_note_cache(c, Head(note_ids)), Tail(note_ids))

SeqRange(s) == {s[i] : i \in 1..Len(s)}

\* a count taken from the length of the request
bulk_mark_processed_CountsRequested(note_ids, fail) ==
    IF fail = 1 THEN Failed([error |-> GwException, processed_count |-> 0], 1)
    ELSE Done([success |-> TRUE, processed_count |-> Len(note_ids), note_ids |-> note_ids],
              InvalidateNotes(cache, note_ids),
              UpdateNotes(SeqRange(note_ids), ProcessedPatch), projects, 1, FALSE)

bulk_mark_processed(note_ids, fail) ==
    IF fail = 1 THEN Failed([error |-> GwException, processed_count |-> 0], 1)
    ELSE Done([success |-> TRUE,
               processed_count |-> Cardinality(SeqRange(note_ids) \cap DOMAIN notes),
               note_ids |-> note_ids],
              InvalidateNotes(cache, note_ids),
              UpdateNotes(SeqRange(note_ids), ProcessedPatch), projects, 1, FALSE)

SearchRow(n) == [id |-> n, transcript |-> notes[n].transcript, created_at |-> notes[n].created_at,
                 is_processed |-> notes[n].is_processed]
SearchRows(ids) == [i \in 1..Len(ids) |-> SearchRow(ids[i])]
SearchResult(rows, query) == [notes |-> rows, count |-> Len(rows), query |-> query]

search_notes(query, include_processed, limit, fail) ==
    LET cache_key == "search_" \o query \o "_" \o BoolStr(include_processed) \o "_" \o ToString(limit)
        found == {n \in DOMAIN notes : /\ Contains(notes[n].transcript, query)
                                       /\ (include_processed \/ ~notes[n].is_processed)}
    IN IF CacheHas(cache_key) THEN Hit(cache_key)
       ELSE IF fail = 1
            THEN Failed([error |-> GwException, notes |-> << >>, count |-> 0, query |-> query], 1)
            ELSE Fetched(cache_key, SearchResult(SearchRows(Take(OrderDesc(found, CreatedAt), limit)), query), 1)

\* the notes created since seven days before the wall clock's today
SevenDaysAgo == 2

Stats(unprocessed, total, recent) ==
    [unprocessed_count |-> unprocessed, total_count |-> total, recent_count |-> recent,
     processed_count |-> total - unprocessed, last_updated |-> now]

\* timedelta is imported only under __main__ (line 821): as_main tells whether the
\* module runs as the script; imported as a module the name is undefined
get_inbox_stats(as_main, fail) ==
    IF CacheHas("inbox_stats") THEN Hit("inbox_stats")
    ELSE IF fail \in 1..2 THEN Failed([error |-> GwException], fail)
    ELSE IF ~as_main THEN Failed([error |-> "name 'timedelta' is not defined"], 2)
    ELSE IF fail = 3 THEN Failed([error |-> GwException], 3)
    ELSE Fetched("inbox_stats",
                 Stats(Cardinality({n \in DOMAIN notes : /\ ~notes[n].is_processed
                                                         /\ notes[n].transcription_status = "completed"}),
                       Cardinality(DOMAIN notes),
                       Cardinality({n \in DOMAIN notes : notes[n].created_at >= SevenDaysAgo})), 3)

\* select("id", count="exact").eq("project_id", ...): the count of the project's notes
NoteCount(p) == Cardinality(NotesOf(p))

ProjectData(p) == [id |-> p] @@ projects[p]

ProjectsWithCounts(ids) == [i \in 1..Len(ids) |-> ProjectData(ids[i]) @@ [note_count |-> NoteCount(ids[i])]]

\* one request for the projects, then one for the note count of each of them
list_projects(include_archived, fail) ==
    LET cache_key == "projects_" \o BoolStr(include_archived)
        ids == OrderDesc({p \in DOMAIN projects : include_archived \/ ~projects[p].is_archived}, UpdatedAt)
    IN IF CacheHas(cache_key) THEN Hit(cache_key)
       ELSE IF fail \in 1..(1 + Len(ids))
            THEN Failed([error |-> GwException, projects |-> << >>, count |-> 0], fail)
            ELSE Fetched(cache_key, [projects |-> ProjectsWithCounts(ids), count |-> Len(ids)], 1 + Len(ids))

\* a get_project that caches the error of an absent project
get_project_CachesNotFound(project_id, single_raises, fail) ==
    LET cache_key == "project_" \o project_id
    IN IF CacheHas(cache_key) THEN Hit(cache_key)
       ELSE IF fail = 1 THEN Failed([error |-> GwException], 1)
       ELSE IF project_id \notin DOMAIN projects
            THEN Fetched(cache_key, [error |-> "Project " \o project_id \o " not found"], 1)
       ELSE IF fail = 2 THEN Failed([error |-> GwException], 2)
       ELSE Fetched(cache_key, ProjectData(project_id) @@ [note_count |-> NoteCount(project_id)], 2)

get_project(project_id, single_raises, fail) ==
    LET cache_key == "project_" \o project_id
    IN IF CacheHas(cache_key) THEN Hit(cache_key)
       ELSE IF fail = 1 THEN Failed([error |-> GwException], 1)
       ELSE IF project_id \notin DOMAIN projects
            THEN IF single_raises THEN Failed([error |-> ZeroRows], 1)
                 ELSE Failed([error |-> "Project " \o project_id \o " not found"], 1)
       ELSE IF fail = 2 THEN Failed([error |-> GwException], 2)
       ELSE Fetched(cache_key, ProjectData(project_id) @@ [note_count |-> NoteCount(project_id)], 2)

\* the id the store gives the next inserted project
NextProjectId == ProjIdPool[Cardinality(DOMAIN projects) + 1]

create_project(name, purpose, goal, fail) ==
    IF fail = 1 THEN Failed([error |-> GwException], 1)
    ELSE LET id == NextProjectId
             row == ProjectRow(name, purpose, goal, FALSE, now)
         IN Done([success |-> TRUE, project |-> [id |-> id] @@ row],
                 _invalidate_projects_cache(cache), notes,
                 [p \in DOMAIN projects \cup {id} |-> IF p = id THEN row ELSE projects[p]], 1, FALSE)

\* update_data: the fields among name, purpose, goal, is_archived that were given (are not
\* None), as a dict, with the timestamp of the update
UpdateFields == {"name", "purpose", "goal", "is_archived"}
FieldsGiven(arguments) == [k \in DOMAIN arguments \cap UpdateFields |-> arguments[k]]

\* an update_project that invalidates before it looks at the rows the update returned
update_project_InvalidatesFirst(project_id, given, fail) ==
    IF DOMAIN given = {} THEN Failed([error |-> "No fields to update"], 0)
    ELSE IF fail = 1 THEN Failed([error |-> GwException], 1)
    ELSE IF project_id \notin DOMAIN projects
         THEN Done([error |-> "Failed to update project " \o project_id],
                   _invalidate_project_cache(_invalidate_projects_cache(cache), project_id),
                   notes, projects, 1, FALSE)
    ELSE LET row == given @@ [updated_at |-> now] @@ projects[project_id]
         IN Done([success |-> TRUE, project |-> [id |-> project_id] @@ row],
                 _invalidate_project_cache(_invalidate_projects_cache(cache), project_id), notes,
                 [projects EXCEPT ![project_id] = row], 1, FALSE)

update_project(project_id, given, fail) ==
    IF DOMAIN given = {} THEN Failed([error |-> "No fields to update"], 0)
    ELSE IF fail = 1 THEN Failed([error |-> GwException], 1)
    ELSE IF project_id \notin DOMAIN projects
         THEN Failed([error |-> "Failed to update project " \o project_id], 1)
    ELSE LET row == given @@ [updated_at |-> now] @@ projects[project_id]
         IN Done([success |-> TRUE, project |-> [id |-> project_id] @@ row],
                 _invalidate_project_cache(_invalidate_projects_cache(cache), project_id), notes,
                 [projects EXCEPT ![project_id] = row], 1, FALSE)

ProjectNoteRow(n) == [id |-> n, transcript |-> notes[n].transcript, created_at |-> notes[n].created_at,
                      modified_at |-> notes[n].modified_at, is_processed |-> notes[n].is_processed]
ProjectNoteRows(ids) == [i \in 1..Len(ids) |-> ProjectNoteRow(ids[i])]

get_notes_by_project(project_id, limit, offset, fail) ==
    LET cache_key == "project_notes_" \o project_id \o "_" \o ToString(limit) \o "_" \o ToString(offset)
        sel == {n \in NotesOf(project_id) : notes[n].transcription_status = "completed"}
    IN IF CacheHas(cache_key) THEN Hit(cache_key)
       ELSE IF fail = 1
            THEN Failed([error |-> GwException, notes |-> << >>, count |-> 0, has_more |-> FALSE], 1)
            ELSE Fetched(cache_key,
                         Listing(ProjectNoteRows(Range(OrderDesc(sel, CreatedAt), offset, limit)), limit)
                             @@ [project_id |-> project_id], 1)

\* notes.project_id references projects(id): the store refuses a reference to no project
ForeignKeyViolation == "insert or update on table notes violates foreign key constraint"

\* an assignment that writes the project reference alone
assign_note_to_project_ProjectOnly(note_id, project_id, fail) ==
    IF fail = 1 THEN Failed([error |-> GwException], 1)
    ELSE IF note_id \notin DOMAIN notes
         THEN Failed([error |-> "Failed to assign note " \o note_id \o " to project"], 1)
    ELSE IF project_id \notin DOMAIN projects THEN Failed([error |-> ForeignKeyViolation], 1)
    ELSE Done([success |-> TRUE, note_id |-> note_id, project_id |-> project_id],
              _invalidate_projects_cache(_invalidate_note_cache(cache, note_id)),
              UpdateNotes({note_id}, [project_id |-> project_id, modified_at |-> now]),
              projects, 1, FALSE)

assign_note_to_project(note_id, project_id, fail) ==
    IF fail = 1 THEN Failed([error |-> GwException], 1)
    ELSE IF note_id \notin DOMAIN notes
         THEN Failed([error |-> "Failed to assign note " \o note_id \o " to project"], 1)
    ELSE IF project_id \notin DOMAIN projects THEN Failed([error |-> ForeignKeyViolation], 1)
    ELSE Done([success |-> TRUE, note_id |-> note_id, project_id |-> project_id],
              _invalidate_projects_cache(_invalidate_note_cache(cache, note_id)),
              UpdateNotes({note_id}, [project_id |-> project_id, is_processed |-> TRUE, modified_at |-> now]),
              projects, 1, FALSE)

----------------------------------------------------------------------------
(* server.py: handle_call_tool, the dispatch of a tool call.               *)

ToolNames == {"list_unprocessed_notes", "read_note", "mark_as_processed", "bulk_mark_processed",
              "search_notes", "get_inbox_stats", "list_projects", "get_project", "create_project",
              "update_project", "get_notes_by_project", "assign_note_to_project"}

\* the arguments a tool reads with arguments["k"]
Required(name) ==
    CASE name \in {"read_note", "mark_as_processed"} -> <<"note_id">>
      [] name = "bulk_mark_processed" -> <<"note_ids">>
      [] name = "search_notes" -> <<"query">>
      [] name \in {"get_project", "update_project", "get_notes_by_project"} -> <<"project_id">>
      [] name = "create_project" -> <<"name">>
      [] name = "assign_note_to_project" -> <<"note_id", "project_id">>
      [] OTHER -> << >>

\* the first required argument that is missing raises KeyError; str(KeyError('k')) is 'k'
MissingArgs(name, arguments) == SelectSeq(Required(name), LAMBDA k : k \notin DOMAIN arguments)

ToolError(message) == Failed([error |-> "Tool execution failed: " \o message], 0)

\* env: what the process runs with. as_main: the module runs as __main__;
\* single_raises: .single() raises when no row matches
Env(as_main, single_raises) == [as_main |-> as_main, single_raises |-> single_raises]

handle_call_tool(name, args, env, fail) ==
    LET arguments == IF IsNull(args) THEN EmptyDict ELSE args
    IN IF name \notin ToolNames THEN ToolError("Unknown tool: " \o name)
       ELSE IF MissingArgs(name, arguments) # << >>
            THEN ToolError("'" \o Head(MissingArgs(name, arguments)) \o "'")
       ELSE CASE name = "list_unprocessed_notes" ->
                    list_unprocessed_notes(Get(arguments, "limit", 50), Get(arguments, "offset", 0), fail)
              [] name = "read_note" -> read_note(arguments["note_id"], env.single_raises, fail)
              [] name = "mark_as_processed" -> mark_as_processed(arguments["note_id"], fail)
              [] name = "bulk_mark_processed" -> bulk_mark_processed(arguments["note_ids"], fail)
              [] name = "search_notes" ->
                    search_notes(arguments["query"], Get(arguments, "include_processed", FALSE),
                                 Get(arguments, "limit", 20), fail)
              [] name = "get_inbox_stats" -> get_inbox_stats(env.as_main, fail)
              [] name = "list_projects" -> list_projects(Get(arguments, "include_archived", FALSE), fail)
              [] name = "get_project" -> get_project(arguments["project_id"], env.single_raises, fail)
              [] name = "create_project" ->
                    create_project(arguments["name"], Get(arguments, "purpose", None),
                                   Get(arguments, "goal", None), fail)
              [] name = "update_project" ->
                    update_project(arguments["project_id"], FieldsGiven(arguments), fail)
              [] name = "get_notes_by_project" ->
                    get_notes_by_project(arguments["project_id"], Get(arguments, "limit", 50),
                                         Get(arguments, "offset", 0), fail)
              [] name = "assign_note_to_project" ->
                    assign_note_to_project(arguments["note_id"], arguments["project_id"], fail)

----------------------------------------------------------------------------
(* server.py: the tool calls a client makes, and the passing of time.      *)

MaxCalls == 3

ListArgs ==
    {EmptyDict, [limit |-> 2], [limit |-> 1, offset |-> 1], [limit |-> 50, offset |-> 0]}
NoteArgs == {[note_id |-> n] : n \in ArgNoteIds}
MarkArgs == {[note_id |-> n] : n \in {"n1", "n9"}}
\* a note_id of the wrong primitive type: an integer
MarkArgsWrongType == [note_id |-> 5]
BulkArgs == {[note_ids |-> ids] : ids \in {<<"n1", "n2">>, <<"n2", "n9">>, <<"n9">>}}
SearchArgs == {[query |-> "milk"], [query |-> "tea", include_processed |-> TRUE, limit |-> 1]}
ProjectsArgs == {EmptyDict, [include_archived |-> TRUE]}
ProjectArgs == {[project_id |-> p] : p \in {"p1", "p2"}}
CreateArgs == {[name |-> "work"], [name |-> "", purpose |-> "later"]}
UpdateArgs == {[project_id |-> "p1", name |-> "house"], [project_id |-> "p1", is_archived |-> TRUE],
               [project_id |-> "p1"], [project_id |-> "p9", goal |-> "done"]}
ProjectNotesArgs == {[project_id |-> "p1"], [project_id |-> "p1", limit |-> 1, offset |-> 0]}
AssignArgs == {[note_id |-> "n1", project_id |-> "p1"],
               [note_id |-> "n1", project_id |-> "p2"], [note_id |-> "n9", project_id |-> "p1"],
               [note_id |-> "n1", project_id |-> "p9"]}

\* the requests of a call that may fail: none, or one of those the tool issues
Failures(first) == {0} \cup first

NoCall == [tool |-> None, arguments |-> EmptyDict, result |-> EmptyDict, gw |-> 0, hit |-> FALSE,
           key |-> "", at |-> 0, age |-> 0, stale |-> FALSE, before |-> {}]

\* what a call leaves in last: the call, its outcome, the time of the call, the age of the
\* entry it was answered from, whether its key was resident but expired, the keys that
\* were in the cache before it, and the call before it
Called(name, arguments, r) ==
    [tool |-> name, arguments |-> arguments, result |-> r.result, gw |-> r.gw, hit |-> r.hit,
     key |-> r.key, at |-> now,
     age |-> IF r.hit THEN now - (cache[r.key].expires - ttl) ELSE 0,
     stale |-> (r.key \in DOMAIN cache /\ ~CacheHas(r.key)),
     before |-> Live(cache),
     prev |-> [f \in DOMAIN NoCall |-> last[f]]]

\* one tools/call request served by handle_call_tool
CallWithin(bound, name, arguments, env, fail) ==
    /\ calls < bound
    /\ \E r \in {handle_call_tool(name, arguments, env, fail)} :
          /\ cache' = r.cache
          /\ notes' = r.notes
          /\ projects' = r.projects
          /\ last' = Called(name, arguments, r)
    /\ calls' = calls + 1
    /\ UNCHANGED <<now, initialized, refused, closed, tasks, running, environ>>

CallTool(name, arguments, env, fail) == CallWithin(MaxCalls, name, arguments, env, fail)

ListUnprocessedNotes ==
    \E a \in ListArgs : \E fail \in Failures(IF a = EmptyDict THEN {1} ELSE {}) :
        CallTool("list_unprocessed_notes", a, Env(TRUE, FALSE), fail)
ReadNote ==
    \E a \in NoteArgs : \E fail \in Failures(IF a.note_id = "n1" THEN {1} ELSE {}) :
      \E single_raises \in (IF a.note_id \in DOMAIN notes THEN {FALSE} ELSE BOOLEAN) :
        CallTool("read_note", a, Env(TRUE, single_raises), fail)
MarkAsProcessed ==
    \/ \E a \in MarkArgs : \E fail \in Failures(IF a.note_id = "n1" THEN {1} ELSE {}) :
          CallTool("mark_as_processed", a, Env(TRUE, FALSE), fail)
    \/ CallTool("mark_as_processed", MarkArgsWrongType, Env(TRUE, FALSE), 0)
BulkMarkProcessed ==
    \E a \in BulkArgs : \E fail \in Failures(IF a.note_ids = <<"n9">> THEN {} ELSE {1}) :
        CallTool("bulk_mark_processed", a, Env(TRUE, FALSE), fail)
SearchNotes ==
    \E a \in SearchArgs : \E fail \in Failures(IF a.query = "milk" THEN {1} ELSE {}) :
        CallTool("search_notes", a, Env(TRUE, FALSE), fail)
GetInboxStats ==
    \E as_main \in BOOLEAN : \E fail \in Failures(IF as_main THEN {2} ELSE {}) :
        CallTool("get_inbox_stats", EmptyDict, Env(as_main, FALSE), fail)
ListProjects ==
    \E a \in ProjectsArgs : \E fail \in Failures(IF a = EmptyDict THEN {2} ELSE {}) :
        CallTool("list_projects", a, Env(TRUE, FALSE), fail)
GetProject ==
    \E a \in ProjectArgs : \E fail \in Failures(IF a.project_id = "p1" THEN {2} ELSE {}) :
      \E single_raises \in (IF a.project_id \in DOMAIN projects THEN {FALSE} ELSE BOOLEAN) :
        CallTool("get_project", a, Env(TRUE, single_raises), fail)
CreateProject ==
    /\ Cardinality(DOMAIN projects) < MaxProjects
    /\ \E a \in CreateArgs : \E fail \in Failures(IF a.name = "work" THEN {1} ELSE {}) :
          CallTool("create_project", a, Env(TRUE, FALSE), fail)
UpdateProject ==
    \E a \in UpdateArgs : \E fail \in Failures(IF "goal" \in DOMAIN a THEN {1} ELSE {}) :
        CallTool("update_project", a, Env(TRUE, FALSE), fail)
GetNotesByProject ==
    \E a \in ProjectNotesArgs : \E fail \in Failures(IF "limit" \in DOMAIN a THEN {1} ELSE {}) :
        CallTool("get_notes_by_project", a, Env(TRUE, FALSE), fail)
AssignNoteToProject ==
    \E a \in AssignArgs : \E fail \in Failures(IF a.note_id = "n9" THEN {1} ELSE {}) :
        CallTool("assign_note_to_project", a, Env(TRUE, FALSE), fail)
\* a call that handle_call_tool answers without running a tool
BadCall ==
    \E c \in {<<"bogus", EmptyDict>>, <<"assign_note_to_project", [note_id |-> "n1"]>>, <<"get_inbox_stats", Null>>} :
        CallTool(c[1], c[2], Env(TRUE, FALSE), 0)

\* time passes between two calls
Tick ==
    /\ now + TickStep <= MaxTime
    /\ now' = now + TickStep
    /\ UNCHANGED <<notes, projects, cache, initialized, refused, last, calls, closed, tasks, running, environ>>

Init ==
    /\ StoreInit
    /\ cache = EmptyDict
    /\ now = 0
    /\ initialized = FALSE
    /\ refused = {}
    /\ last = NoCall
    /\ calls = 0
    /\ closed = Running
    /\ environ = Configured
    /\ tasks = NoTasks
    /\ running = None

Next ==
    \/ ListUnprocessedNotes \/ ReadNote \/ MarkAsProcessed \/ BulkMarkProcessed
    \/ SearchNotes \/ GetInboxStats \/ ListProjects \/ GetProject
    \/ CreateProject \/ UpdateProject \/ GetNotesByProject \/ AssignNoteToProject
    \/ BadCall
    \/ Tick

Spec == Init /\ [][Next]_vars

----------------------------------------------------------------------------
(* server.py: tool calls as coroutines on one event loop.                  *)
(* Each request becomes a coroutine; the event loop runs one coroutine at  *)
(* a time and changes to another only where the running one suspends at an *)
(* await.  A tool is taken statement by statement: the cache test, the     *)
(* query and the cache write of a read tool; the update and the            *)
(* invalidation of a mutating tool.                                        *)

\* the calls in flight: list_unprocessed_notes(), read_note("n1"), mark_as_processed("n1")
TaskTools == {"list_unprocessed_notes", "read_note", "mark_as_processed"}
TaskReadTools == {"list_unprocessed_notes", "read_note"}

\* cache_key of the call
KeyOf(tool) == IF tool = "read_note" THEN "note_n1" ELSE "unprocessed_50_0"

\* what .execute() of the call's query returns from the store as it is
AnswerOf(tool) ==
    IF tool = "read_note" THEN NoteData("n1")
    ELSE Listing(ListRows(Range(OrderDesc(InboxIds, CreatedAt), 0, 50)), 50)

\* a tool whose .execute() would be awaited, giving up the event loop
Suspends_AtExecute(pc) == pc \in {"fetched", "written"}

\* whether the coroutine gives up the event loop on reaching pc: .execute() is a plain
\* blocking call and the tools hold no await, so it never does before it returns
Suspends(pc) == FALSE

\* the library hands a request to handle_call_tool: a new coroutine, ready to run
Receive ==
    \E t \in TaskIds : \E tool \in TaskTools :
        /\ calls < MaxCalls
        /\ running = None
        /\ tasks[t].pc = "idle"
        /\ tasks' = [tasks EXCEPT ![t] = [pc |-> "ready", tool |-> tool, fetched |-> EmptyDict]]
        /\ calls' = calls + 1
        /\ UNCHANGED <<notes, projects, cache, now, initialized, refused, last, closed, running, environ>>

\* the coroutine t moves to pc, keeping the event loop unless it suspends or returns
Goto(t, pc, fetched) ==
    /\ tasks' = [tasks EXCEPT ![t] = [@ EXCEPT !.pc = pc, !.fetched = fetched]]
    /\ running' = IF pc = "idle" \/ Suspends(pc) THEN None ELSE t

\* one statement of a read tool: if cache_key in self.cache: return; the query;
\* self.cache[cache_key] = result
ReadStep(t) ==
    LET task == tasks[t]
        key == KeyOf(task.tool)
    IN /\ task.tool \in TaskReadTools
       /\ CASE task.pc = "ready" ->
                  /\ Goto(t, IF CacheHas(key) THEN "idle" ELSE "miss", EmptyDict)
                  /\ UNCHANGED <<cache, notes>>
            [] task.pc = "miss" ->
                  /\ Goto(t, "fetched", AnswerOf(task.tool))
                  /\ UNCHANGED <<cache, notes>>
            [] task.pc = "fetched" ->
                  /\ Goto(t, "idle", EmptyDict)
                  /\ cache' = CacheSet(cache, key, task.fetched)
                  /\ UNCHANGED notes
            [] OTHER -> FALSE

\* one statement of mark_as_processed("n1"): the update; self._invalidate_note_cache
WriteStep(t) ==
    LET task == tasks[t]
    IN /\ task.tool = "mark_as_processed"
       /\ CASE task.pc = "ready" ->
                  /\ Goto(t, "written", EmptyDict)
                  /\ notes' = UpdateNotes({"n1"}, ProcessedPatch)
                  /\ UNCHANGED cache
            [] task.pc = "written" ->
                  /\ Goto(t, "idle", EmptyDict)
                  /\ cache' = _invalidate_note_cache(cache, "n1")
                  /\ UNCHANGED notes
            [] OTHER -> FALSE

\* the event loop runs the next statement of the coroutine that holds it, or of any
\* coroutine in flight when it is free
Step ==
    \E t \in TaskIds :
        /\ running \in {None, t}
        /\ tasks[t].pc # "idle"
        /\ ReadStep(t) \/ WriteStep(t)
        /\ UNCHANGED <<projects, now, initialized, refused, last, calls, closed, environ>>

TaskNext == Receive \/ Step

TaskSpec == Init /\ [][TaskNext]_vars

----------------------------------------------------------------------------
(* server.py: the project workflow. A client creates projects, assigns      *)
(* notes to them and lists the notes of a project, over one call more than  *)
(* the calls of Spec.                                                       *)

MaxWorkflowCalls == 4

WorkflowNotesArgs ==
    {[project_id |-> p] : p \in {"p1", "p2"}} \cup {[project_id |-> "p2", limit |-> 1, offset |-> 0]}

WorkflowCreate ==
    /\ Cardinality(DOMAIN projects) < MaxProjects
    /\ \E a \in CreateArgs : \E fail \in Failures(IF a.name = "work" THEN {1} ELSE {}) :
          CallWithin(MaxWorkflowCalls, "create_project", a, Env(TRUE, FALSE), fail)
WorkflowNotes ==
    \E a \in WorkflowNotesArgs : \E fail \in Failures(IF "limit" \in DOMAIN a THEN {1} ELSE {}) :
        CallWithin(MaxWorkflowCalls, "get_notes_by_project", a, Env(TRUE, FALSE), fail)
WorkflowAssign ==
    \E a \in AssignArgs : \E fail \in Failures(IF a.note_id = "n9" THEN {1} ELSE {}) :
        CallWithin(MaxWorkflowCalls, "assign_note_to_project", a, Env(TRUE, FALSE), fail)

WorkflowNext == WorkflowCreate \/ WorkflowNotes \/ WorkflowAssign \/ Tick

WorkflowSpec == Init /\ [][WorkflowNext]_vars

----------------------------------------------------------------------------
(* Claims about the protocol session *)

KnownMethods == {"initialize", "notifications/initialized", "tools/list", "tools/call"}

IsResult(response) == "result" \in DOMAIN response
IsError(response) == "error" \in DOMAIN response

\* C1: while the session is Uninitialized, a tools/list or tools/call request is
\* answered by exactly one error response with the request's id saying the server is
\* not initialized, no tool is called, no Gateway request is issued and the session
\* stays Uninitialized; an initialize is accepted whenever it is sent, and once
\* Initialized tools/list is answered with the catalog and tools/call is no longer refused.
C1_UninitializedRefused ==
    /\ (last.method \in {"tools/list", "tools/call"} /\ ~last.was) =>
          /\ last.response = ErrorResponse(last.id, InternalError, "Internal error: Server not initialized")
          /\ last.gw = 0
          /\ ~last.called
          /\ ~initialized
    /\ last.method = "initialize" => (initialized /\ IsResult(last.response))
    /\ (last.method = "tools/list" /\ last.was) =>
          last.response = ResultResponse(last.id, [tools |-> McpCatalog])
    /\ (last.method = "tools/call" /\ last.was) => ~IsRefusal(last.response)

\* a tools/call that was refused before the handshake is answered with a tool's result after it
C1_Witness ==
    /\ "tools/call" \in refused
    /\ last.method = "tools/call"
    /\ last.called
    /\ IsResult(last.response)

\* C2: an initialize request moves the session to Initialized and is answered by a
\* result with the request's id holding the protocol version, the capabilities tools
\* and logging and the server's name and version; tools/list and tools/call handled
\* after it pass the initialization check.
C2_InitializeAccepted ==
    /\ last.method = "initialize" =>
          /\ initialized
          /\ IsResult(last.response)
          /\ last.response.id = last.id
          /\ last.response.result.protocolVersion = "2024-11-05"
          /\ {"tools", "logging"} \subseteq DOMAIN last.response.result.capabilities
          /\ last.response.result.serverInfo = [name |-> "voice-notes-mcp", version |-> "1.0.0"]
    /\ (last.method \in {"tools/list", "tools/call"} /\ last.was) => ~IsRefusal(last.response)

\* C9: while Initialized, a tools/call that raises (in the tool or in the extraction
\* of its arguments) is answered by exactly one error response with the request's id,
\* the session stays Initialized, and the request after it is handled as any other:
\* tools/list is answered with the catalog.
C9_ExceptionAnswered ==
    /\ (last.method = "tools/call" /\ last.was /\ last.exc # "") =>
          /\ last.response = ErrorResponse(last.id, InternalError, "Internal error: " \o last.exc)
          /\ initialized
    /\ (last.after_error /\ last.was) => initialized
    /\ (last.after_error /\ last.was /\ last.method = "tools/list") =>
          last.response = ResultResponse(last.id, [tools |-> McpCatalog])

\* a tool called right after a call that raised inside its tool returns a result
C9_Witness ==
    /\ last.after_error
    /\ last.was
    /\ last.method = "tools/call"
    /\ last.called
    /\ last.id # None
    /\ IsResult(last.response)
    /\ \E n \in DOMAIN notes : notes[n].is_processed /\ notes[n].project_id = NULL

\* C10: a request whose method is none of initialize, notifications/initialized,
\* tools/list, tools/call is answered by one "method not found" error (code -32601)
\* with the request's id, and the step changes neither the session state nor the
\* store nor the cache.
C10_MethodNotFound ==
    [][ last'.method \notin KnownMethods =>
          /\ last'.response = ErrorResponse(last'.id, -32601, "Method not found: " \o last'.method)
          /\ initialized' = initialized
          /\ notes' = notes
          /\ projects' = projects
          /\ cache' = cache
          /\ last'.gw = 0 ]_vars

\* an unknown method was answered by an Initialized session, with the id it carried
C10_Witness ==
    /\ last.method = "ping"
    /\ last.id # None
    /\ last.was
    /\ IsError(last.response)

----------------------------------------------------------------------------
(* Claims about the cache of server.py *)

Success(l) == "success" \in DOMAIN l.result
NoError(l) == "error" \notin DOMAIN l.result

\* the keys the cache held when the call at time t returned
HeldAt(t) == {k \in DOMAIN cache : t < cache[k].expires}

NoteMutations == {"mark_as_processed", "bulk_mark_processed", "assign_note_to_project"}

MutatedNotes(l) ==
    IF l.tool = "bulk_mark_processed" THEN SeqRange(l.arguments.note_ids) ELSE {l.arguments.note_id}

NoNoteEntries(held, n) ==
    \A k \in held : ~StartsWith(k, "unprocessed_") /\ k # "note_" \o n /\ k # "inbox_stats"

NoProjectEntries(held, p) ==
    \A k \in held : /\ ~StartsWith(k, "projects_")
                    /\ ~StartsWith(k, "project_notes_")
                    /\ k # "project_" \o p

\* C3: after a successful mark_as_processed(n), bulk_mark_processed(ids) (for each n in
\* ids) or assign_note_to_project(n, p), the cache holds no key starting unprocessed_,
\* no key note_<n> and no key inbox_stats, whatever it held before.
C3_NoteMutationInvalidates ==
    (last.tool \in NoteMutations /\ Success(last)) =>
        \A n \in MutatedNotes(last) : NoNoteEntries(HeldAt(last.at), n)

C3_Witness ==
    /\ last.tool = "mark_as_processed" /\ Success(last)
    /\ {"note_n1", "inbox_stats"} \subseteq last.before
    /\ last.arguments.note_id = "n1"
    /\ notes["n1"].is_processed

\* C4: after a successful create_project or update_project(p, ...), the cache holds no
\* key projects_True or projects_False, no key project_notes_*, and no key project_<p>
\* of the project created or updated.
C4_ProjectMutationInvalidates ==
    /\ (last.tool = "update_project" /\ Success(last)) =>
           NoProjectEntries(HeldAt(last.at), last.arguments.project_id)
    /\ (last.tool = "create_project" /\ Success(last)) =>
           NoProjectEntries(HeldAt(last.at), last.result.project.id)

C4_Witness ==
    /\ last.tool = "update_project" /\ Success(last)
    /\ {"project_p1", "projects_False"} \subseteq last.before
    /\ projects["p1"].is_archived

\* C5: after a successful assign_note_to_project(n, p) the cache holds none of the
\* entries of the note set (unprocessed_*, note_<n>, inbox_stats) and none of the project
\* set (projects_*, project_notes_*, project_<p>); a get_project(p) or list_projects
\* answered right after the assignment reports a note_count that counts n.
C5_AssignInvalidatesBoth ==
    /\ (last.tool = "assign_note_to_project" /\ Success(last)) =>
           /\ NoNoteEntries(HeldAt(last.at), last.arguments.note_id)
           /\ NoProjectEntries(HeldAt(last.at), last.arguments.project_id)
    /\ (/\ last.tool = "get_project" /\ NoError(last)
        /\ last.prev.tool = "assign_note_to_project" /\ Success(last.prev)
        /\ last.arguments.project_id = last.prev.arguments.project_id) =>
           last.result.note_count = NoteCount(last.arguments.project_id)
    /\ (/\ last.tool = "list_projects" /\ NoError(last)
        /\ last.prev.tool = "assign_note_to_project" /\ Success(last.prev)) =>
           \A i \in 1..Len(last.result.projects) :
               last.result.projects[i].note_count = NoteCount(last.result.projects[i].id)

\* C6: a read_note(n) answered after a successful assign_note_to_project(n, p) is not
\* answered from a cache entry made before the assignment: it queries the Gateway and its
\* result has project_id = p; no cached note entry disagrees with the store on the
\* note's project.
C6_ReadAfterAssignFresh ==
    /\ (/\ last.tool = "read_note" /\ "note_id" \in DOMAIN last.arguments
        /\ last.prev.tool = "assign_note_to_project" /\ Success(last.prev)
        /\ last.arguments.note_id = last.prev.arguments.note_id) =>
           /\ ~last.hit
           /\ last.gw = 1
           /\ NoError(last) => last.result.project_id = last.prev.arguments.project_id
    /\ \A n \in DOMAIN notes :
           ("note_" \o n) \in HeldAt(last.at) =>
               cache["note_" \o n].value.project_id = notes[n].project_id

C6_Witness ==
    /\ last.tool = "read_note" /\ NoError(last)
    /\ last.prev.tool = "assign_note_to_project" /\ Success(last.prev)
    /\ last.arguments.note_id = "n1" /\ last.prev.arguments.note_id = "n1"
    /\ "note_n1" \in last.prev.before
    /\ last.result.project_id = "p1"
    /\ last.result.project_name = "home"

\* the (limit, offset) a list_unprocessed_notes call runs with
Effective(arguments) == <<Get(arguments, "limit", 50), Get(arguments, "offset", 0)>>

\* C7: of two consecutive list_unprocessed_notes calls with the same effective
\* (limit, offset), the first answered by the Gateway without error, with no call and
\* no expiry between them, the second is answered from the cache: one Gateway request in
\* total and equal results.
C7_SecondListFromCache ==
    (/\ last.tool = "list_unprocessed_notes" /\ last.prev.tool = "list_unprocessed_notes"
     /\ Effective(last.arguments) = Effective(last.prev.arguments)
     /\ NoError(last.prev) /\ ~last.prev.hit
     /\ last.at < last.prev.at + ttl) =>
        /\ last.hit
        /\ last.prev.gw + last.gw = 1
        /\ last.result = last.prev.result

C7_Witness ==
    /\ last.tool = "list_unprocessed_notes" /\ last.prev.tool = "list_unprocessed_notes"
    /\ last.prev.arguments = [limit |-> 50, offset |-> 0] /\ last.arguments = EmptyDict
    /\ ~last.prev.hit /\ last.hit
    /\ last.at > last.prev.at
    /\ last.result.count = 2

ReadTools == {"list_unprocessed_notes", "read_note", "search_notes", "get_inbox_stats",
              "list_projects", "get_project", "get_notes_by_project"}

\* C8: a read tool never answers from an entry inserted more than ttl before the call;
\* when the entry of its key is resident but older than that, the call queries the
\* Gateway and leaves a fresh entry holding what it returned.
C8_NoExpiredEntryReturned ==
    /\ last.hit => (last.tool \in ReadTools /\ last.age <= ttl)
    /\ last.stale =>
           /\ ~last.hit
           /\ last.gw >= 1
           /\ cache[last.key] = [value |-> last.result, expires |-> last.at + ttl]

C8_Witness ==
    /\ last.tool = "get_project" /\ last.stale /\ last.at > ttl
    /\ last.prev.tool = "get_project" /\ last.prev.hit /\ last.prev.age > 0
    /\ last.result.note_count = 1

----------------------------------------------------------------------------
(* Claims about the message loop and the dispatch of tools *)

\* C11: a notifications/initialized message is answered with no response line and
\* leaves the session as it was, Uninitialized or Initialized; no tool is called and
\* no Gateway request is issued.
C11_NotificationSilent ==
    (last.server = "mcp_server" /\ last.method = "notifications/initialized") =>
        /\ last.response = NoResponse
        /\ initialized = last.was
        /\ last.gw = 0 /\ ~last.called

C11_Witness ==
    /\ last.method = "notifications/initialized" /\ last.id # None
    /\ ~last.was /\ ~initialized
    /\ "tools/list" \in refused

\* a tool result of shape {error: ...}, the form of a tool's business error
IsErrorResult(result) == DOMAIN result = {"error"}

\* C12: a call of a tool name that is not in the catalog yields an error that contains
\* "Unknown tool" and the requested name, issues no Gateway request, and is not
\* reported in the form of a tool's business error, a tool result of shape {error: ...}.
C12_UnknownToolHardError ==
    (last.tool # None /\ last.tool \notin ToolNames) =>
        /\ "error" \in DOMAIN last.result
        /\ Contains(last.result.error, "Unknown tool")
        /\ Contains(last.result.error, last.tool)
        /\ last.gw = 0
        /\ ~IsErrorResult(last.result)

\* a call that lacks a parameter its tool reads with arguments["k"]
MissingRequired(l) ==
    /\ l.tool \in ToolNames
    /\ MissingArgs(l.tool, IF IsNull(l.arguments) THEN EmptyDict ELSE l.arguments) # << >>

\* a call whose note_id is not a string
WrongType(l) ==
    /\ l.tool = "mark_as_processed"
    /\ "note_id" \in DOMAIN l.arguments
    /\ ~IsStr(l.arguments.note_id)

\* C13: a call that lacks a required parameter of its tool, or carries a value of the
\* wrong primitive type, fails with an error before any Gateway request is issued and
\* leaves the store and the cache unchanged.
C13_ParameterErrorFirst ==
    [][ (MissingRequired(last') \/ WrongType(last')) =>
            /\ "error" \in DOMAIN last'.result
            /\ last'.gw = 0
            /\ notes' = notes /\ projects' = projects /\ cache' = cache ]_vars

\* C14: a message loop ends only on end of input: no other line, whether malformed
\* JSON, JSON that is not an object, an unknown method or a request whose tool raises,
\* ends it, and the next line is read and handled.
C14_ClosedOnlyOnEof ==
    \A s \in DOMAIN closed : closed[s] \in {"", "eof"}

\* C15: every inbound message but notifications/initialized, a JSON object or not,
\* is answered by one response line that carries the request's id and either a result
\* or an error with a code and a message.
C15_OneResponsePerRequest ==
    (/\ last.server = "mcp_server" /\ last.line \in {"object", "nonobject"}
     /\ last.method # "notifications/initialized") =>
        /\ last.response # NoResponse
        /\ last.response.id = last.id
        /\ \/ "result" \in DOMAIN last.response
           \/ /\ "error" \in DOMAIN last.response
              /\ DOMAIN last.response.error = {"code", "message"}

\* the coroutines that have started a tool and not returned from it
InProgress == {t \in TaskIds : tasks[t].pc \notin {"idle", "ready"}}

\* C16: tool calls are serialized: at most one is being handled at any time and it
\* runs to its end before another starts, so the cache test, query and cache write of
\* a read tool and the update and invalidation of a mutating tool are atomic: between
\* calls, no cache entry holds a result that differs from what the store gives.
C16_Serialized ==
    /\ Cardinality(InProgress) <= 1
    /\ \A t \in InProgress : running = t
    /\ InProgress = {} =>
           \A tool \in TaskReadTools :
               CacheHas(KeyOf(tool)) => cache[KeyOf(tool)].value = AnswerOf(tool)

C16_Witness ==
    /\ tasks["t1"].pc = "fetched" /\ tasks["t1"].tool = "list_unprocessed_notes"
    /\ tasks["t2"].pc = "ready" /\ tasks["t2"].tool = "mark_as_processed"
    /\ running = "t1"
    /\ CacheHas("note_n1")

PagedTools == {"list_unprocessed_notes", "get_notes_by_project"}

\* C17: a successful result of list_unprocessed_notes or get_notes_by_project has
\* has_more true exactly when the number of rows returned equals the limit of the
\* call, also when the store holds no further row.
C17_HasMoreIffFull ==
    (last.tool \in PagedTools /\ NoError(last)) =>
        /\ last.result.count = Len(last.result.notes)
        /\ last.result.has_more <=> (Len(last.result.notes) = Get(last.arguments, "limit", 50))

C17_Witness ==
    /\ last.tool = "list_unprocessed_notes" /\ last.arguments = [limit |-> 2]
    /\ NoError(last) /\ ~last.hit
    /\ last.result.has_more
    /\ Cardinality(InboxIds) = 2
    /\ last.prev.tool = "get_notes_by_project" /\ ~last.prev.result.has_more

\* the single-row lookups and the argument that names the row
Lookups == {"read_note", "get_project"}
LookupId(l) == IF l.tool = "read_note" THEN l.arguments.note_id ELSE l.arguments.project_id
LookupStore(l) == IF l.tool = "read_note" THEN DOMAIN notes ELSE DOMAIN projects
\* a lookup of an id the store does not hold, which the Gateway answered
LookupOfAbsent(l) == l.tool \in Lookups /\ LookupId(l) \notin LookupStore(l) /\ l.gw = 1

\* C18: read_note(id) for a note id that is not in the store returns a result whose
\* error contains "not found" and the id, and get_project does the same for a project
\* id that is not in the store.
C18_NotFoundNamesId ==
    LookupOfAbsent(last) =>
        /\ DOMAIN last.result = {"error"}
        /\ Contains(last.result.error, "not found")
        /\ Contains(last.result.error, LookupId(last))

\* a mark_as_processed call that returned success: True with the note id it was given
Marked(l) ==
    /\ l.tool = "mark_as_processed"
    /\ Success(l)
    /\ l.result = [success |-> TRUE, note_id |-> l.arguments.note_id]

\* the step is a mark_as_processed of the note the previous call marked, and the
\* Gateway answers it
MarkedAgain ==
    /\ Marked(last)
    /\ calls' = calls + 1
    /\ last'.tool = "mark_as_processed"
    /\ IsStr(last'.arguments.note_id)
    /\ last'.arguments.note_id = last.arguments.note_id
    /\ last'.result # [error |-> GwException]

\* what the read tools show of the store: the note rows and the project rows
Visible(nts, prj) == <<nts, prj>>

\* C19: mark_as_processed is idempotent: called twice in a row on a note of the store
\* it returns success: True with the note id both times, and the store seen through the
\* read tools after the second call is the store after the first.
C19_MarkIdempotent ==
    [][MarkedAgain => (Marked(last') /\ Visible(notes', projects') = Visible(notes, projects))]_vars

\* the result of the tool a tools/call response carries, {} when the response is an error
ToolAnswer(response) ==
    IF IsResult(response) /\ "content" \in DOMAIN response.result
    THEN response.result.content[1].text ELSE EmptyDict

\* the step is a mark_as_processed call of mcp_server.py whose PATCH the Gateway answered
McpMarkAnswered ==
    /\ last'.server = "mcp_server"
    /\ last'.method = "tools/call"
    /\ last'.name = "mark_as_processed"
    /\ last'.called
    /\ ToolAnswer(last'.response) # [error |-> GwError]

\* C20: mark_as_processed returns success: True exactly when its update affected at
\* least one row, and an error result saying that the operation failed when it affected
\* none (stated here of mcp_server.py's mark_as_processed: a call that changed a row
\* is answered with success, and every answered call with success or with a failure
\* result).
C20_SuccessIffRowAffected ==
    [][McpMarkAnswered =>
          /\ notes' # notes => "success" \in DOMAIN ToolAnswer(last'.response)
          /\ \/ "success" \in DOMAIN ToolAnswer(last'.response)
             \/ /\ "error" \in DOMAIN ToolAnswer(last'.response)
                /\ Contains(ToolAnswer(last'.response).error, "Failed")]_vars

----------------------------------------------------------------------------
(* Claims about the results of the tools *)

\* the rows of the store that the update of the call l wrote: processed, with the
\* modification time of the call
RowsUpdatedBy(l) ==
    {n \in DOMAIN notes : /\ n \in SeqRange(l.arguments.note_ids)
                          /\ notes[n].is_processed
                          /\ notes[n].modified_at = l.at}

\* the requested ids that are in no row of the store
AbsentIds(l) == SeqRange(l.arguments.note_ids) \ DOMAIN notes

\* C21: a bulk_mark_processed that returns success reports as processed_count the
\* number of rows the store updated: less than the number of ids requested when one of
\* them is in no row, 0 when none is, never the length of note_ids as such.
C21_CountIsRowsUpdated ==
    (last.tool = "bulk_mark_processed" /\ Success(last)) =>
        /\ last.result.processed_count = Cardinality(RowsUpdatedBy(last))
        /\ AbsentIds(last) # {} => last.result.processed_count < Len(last.arguments.note_ids)
        /\ SeqRange(last.arguments.note_ids) \cap DOMAIN notes = {} => last.result.processed_count = 0

\* a request of two ids, one of them absent, reported with a count of 1, after a
\* request of an absent id alone reported with a count of 0
C21_Witness ==
    /\ last.tool = "bulk_mark_processed"
    /\ last.arguments.note_ids = <<"n2", "n9">>
    /\ last.result = [success |-> TRUE, processed_count |-> 1, note_ids |-> <<"n2", "n9">>]
    /\ last.prev.tool = "bulk_mark_processed"
    /\ last.prev.result = [success |-> TRUE, processed_count |-> 0, note_ids |-> <<"n9">>]

\* the step is an update_project call
UpdateCalled == calls' = calls + 1 /\ last'.tool = "update_project"

\* C22: update_project called with none of name, purpose, goal, is_archived returns
\* the error "No fields to update", issues no Gateway request and invalidates nothing;
\* with a field given and no row affected it returns an error saying the update failed
\* and invalidates nothing.
C22_NoFieldsNoRows ==
    [][UpdateCalled =>
          /\ DOMAIN FieldsGiven(last'.arguments) = {} =>
                /\ last'.result = [error |-> "No fields to update"]
                /\ last'.gw = 0
                /\ cache' = cache /\ projects' = projects /\ notes' = notes
          /\ (/\ DOMAIN FieldsGiven(last'.arguments) # {}
              /\ last'.arguments.project_id \notin DOMAIN projects
              /\ last'.result # [error |-> GwException]) =>
                /\ DOMAIN last'.result = {"error"}
                /\ Contains(last'.result.error, "Failed to update project")
                /\ last'.gw = 1
                /\ cache' = cache /\ projects' = projects /\ notes' = notes]_vars

\* with a listing of the projects in the cache: an update of a project that is in no
\* row, after an update that names no field
C22_Witness ==
    /\ last.tool = "update_project"
    /\ last.arguments = [project_id |-> "p9", goal |-> "done"]
    /\ last.result = [error |-> "Failed to update project p9"]
    /\ last.prev.tool = "update_project"
    /\ last.prev.result = [error |-> "No fields to update"]
    /\ \E k \in Live(cache) : StartsWith(k, "projects_")

\* a create_project call with the empty string as name
CreatedUnnamed(l) ==
    l.tool = "create_project" /\ "name" \in DOMAIN l.arguments /\ l.arguments.name = ""

\* C23: create_project with an empty name returns a validation error and inserts
\* nothing: no Gateway request is made for it and no project without a name is in the
\* store.
C23_EmptyNameRefused ==
    /\ CreatedUnnamed(last) => (DOMAIN last.result = {"error"} /\ last.gw = 0)
    /\ \A p \in DOMAIN projects : projects[p].name # ""

\* every note that refers to a project is processed
AssignedAreProcessed(nts) == \A n \in DOMAIN nts : nts[n].project_id # NULL => nts[n].is_processed

\* C24: in every store reached by tool calls from a store in which every note with a
\* project reference is processed, every note with a project reference is processed;
\* a successful assign_note_to_project writes the reference and the processed flag
\* with one update request.
C24_AssignedAreProcessed ==
    /\ AssignedAreProcessed(notes)
    /\ (last.tool = "assign_note_to_project" /\ Success(last)) =>
          /\ last.gw = 1
          /\ notes[last.arguments.note_id].project_id = last.arguments.project_id
          /\ notes[last.arguments.note_id].is_processed

\* a note of the inbox assigned to a project that a call created
C24_Witness ==
    /\ last.tool = "assign_note_to_project"
    /\ Success(last)
    /\ last.arguments = [note_id |-> "n1", project_id |-> "p2"]
    /\ last.prev.tool = "create_project"
    /\ notes["n1"].project_id = "p2"
    /\ notes["n1"].is_processed

\* the empty listing that goes with an error
ZeroedListing(result) ==
    /\ {"notes", "count", "has_more"} \subseteq DOMAIN result
    /\ result.notes = << >>
    /\ result.count = 0
    /\ ~result.has_more

\* C25: when the Gateway fails during a listing tool, the tool returns a result with
\* an error message together with the zeroed shape of its result (empty list, count 0,
\* has_more false), so that no key of the shape is missing (stated here of
\* list_unprocessed_notes called through mcp_server.py).
C25_ErrorKeepsShape ==
    (/\ last.server = "mcp_server"
     /\ last.method = "tools/call"
     /\ last.name = "list_unprocessed_notes"
     /\ last.called
     /\ last.exc = ""
     /\ "error" \in DOMAIN ToolAnswer(last.response)) =>
        ZeroedListing(ToolAnswer(last.response))

\* C26: no retries: within a tool call a Gateway request is issued once, and when a
\* request of the call fails the call ends with an error result after that attempt:
\* no further Gateway request is made for the call.
C26_SingleAttempt ==
    (/\ last.server = "mcp_server"
     /\ last.method = "tools/call"
     /\ last.called
     /\ last.failed \in 1..last.gw) =>
        /\ last.gw = last.failed
        /\ \/ last.exc # ""
           \/ "error" \in DOMAIN ToolAnswer(last.response)

StatsKeys == {"unprocessed_count", "total_count", "recent_count", "processed_count"}

\* the four counts, the processed count being the total less the unprocessed
IsStats(result) ==
    /\ StatsKeys \subseteq DOMAIN result
    /\ result.processed_count = result.total_count - result.unprocessed_count

\* C27: get_inbox_stats returns unprocessed_count, total_count, recent_count and
\* processed_count = total_count - unprocessed_count whenever no count request of the
\* call fails, and an error result without counts when one fails.
C27_StatsOrError ==
    last.tool = "get_inbox_stats" =>
        IF last.result = [error |-> GwException]
        THEN last.gw \in 1..3
        ELSE IsStats(last.result)

\* a row of a listing is a note of the inbox: in the store, with no project, not
\* processed, transcribed
InboxRow(row) ==
    /\ row.id \in DOMAIN notes
    /\ notes[row.id].project_id = NULL
    /\ ~notes[row.id].is_processed
    /\ notes[row.id].transcription_status = "completed"

NewestFirst(rows) == \A i \in 1..Len(rows) - 1 : rows[i].created_at >= rows[i + 1].created_at

CountsFromNotes(rows) ==
    \A i \in 1..Len(rows) :
        rows[i].note_count = Cardinality({n \in DOMAIN notes : notes[n].project_id = rows[i].id})

\* C29: every project returned by a list_projects call that is not answered from a
\* cache carries a note_count equal to the number of notes in the store whose project
\* reference is that project's id at the time of the call: the count is taken from the
\* notes, not from a column of the project (stated here of list_projects called through
\* mcp_server.py).
C29_NoteCountFromNotes ==
    (/\ last.server = "mcp_server"
     /\ last.method = "tools/call"
     /\ last.name = "list_projects"
     /\ last.called
     /\ "projects" \in DOMAIN ToolAnswer(last.response)) =>
        CountsFromNotes(ToolAnswer(last.response).projects)

\* the projects that a create_project call of the run inserted
CreatedProjects == DOMAIN projects \ DOMAIN InitProjects

\* get_notes_by_project(P) following a successful assign_note_to_project(n, P), for a
\* project P that a create_project call inserted
RetrievedAfterAssign ==
    /\ last.tool = "get_notes_by_project"
    /\ NoError(last)
    /\ last.prev.tool = "assign_note_to_project"
    /\ "success" \in DOMAIN last.prev.result
    /\ last.prev.arguments.project_id = last.arguments.project_id
    /\ last.arguments.project_id \in CreatedProjects

\* C30: create_project(name) returns success with a project that is not archived; an
\* assign_note_to_project(n, P) of a completed note of the store to that project returns
\* success; and the get_notes_by_project(P) that follows returns count = 1 with n as its
\* only note, also when a get_notes_by_project(P) was answered and cached between the
\* creation and the assignment.
C30_CreateAssignRetrieve ==
    /\ (last.tool = "create_project" /\ Success(last)) =>
          /\ ~last.result.project.is_archived
          /\ last.result.project.id \in CreatedProjects
    /\ (/\ last.tool = "assign_note_to_project"
        /\ last.arguments.note_id \in DOMAIN notes
        /\ last.arguments.project_id \in DOMAIN projects
        /\ last.result # [error |-> GwException]) => Success(last)
    /\ RetrievedAfterAssign =>
          /\ last.result.count = 1
          /\ Len(last.result.notes) = 1
          /\ last.result.notes[1].id = last.prev.arguments.note_id

\* the listing of the created project was in the cache when the note was assigned, and
\* the listing that follows the assignment is fetched and holds the note
C30_Witness ==
    /\ RetrievedAfterAssign
    /\ last.arguments = [project_id |-> "p2"]
    /\ "project_notes_p2_50_0" \in last.prev.before
    /\ ~last.hit
    /\ last.result.notes[1].id = "n1"

----------------------------------------------------------------------------
(* server.py: the read tools called with ids and queries that hold the     *)
(* separator of the cache keys.                                            *)

MaxKeyCalls == 3

KeyProjectArgs == {[project_id |-> p] : p \in {"p1", "notes_p1_1_0"}}
KeySearchArgs ==
    {[query |-> "milk"], [query |-> "milk", include_processed |-> TRUE],
     [query |-> "milk", limit |-> 1], [query |-> "milk_True"]}

KeyProject ==
    \E a \in KeyProjectArgs : \E fail \in Failures(IF a.project_id = "p1" THEN {2} ELSE {}) :
      \E single_raises \in (IF a.project_id \in DOMAIN projects THEN {FALSE} ELSE BOOLEAN) :
        CallWithin(MaxKeyCalls, "get_project", a, Env(TRUE, single_raises), fail)
KeyProjectNotes ==
    \E a \in ProjectNotesArgs : \E fail \in Failures(IF "limit" \in DOMAIN a THEN {1} ELSE {}) :
        CallWithin(MaxKeyCalls, "get_notes_by_project", a, Env(TRUE, FALSE), fail)
KeySearch ==
    \E a \in KeySearchArgs : CallWithin(MaxKeyCalls, "search_notes", a, Env(TRUE, FALSE), 0)
KeyListProjects ==
    \E a \in ProjectsArgs : CallWithin(MaxKeyCalls, "list_projects", a, Env(TRUE, FALSE), 0)

KeyNext == KeyProject \/ KeyProjectNotes \/ KeySearch \/ KeyListProjects \/ Tick

KeySpec == Init /\ [][KeyNext]_vars

----------------------------------------------------------------------------
(* The construction of the three server objects from the environment, and  *)
(* the requests each of them serves once it exists.                        *)

MaxConstructCalls == 2

Servers == {"mcp_server", "simple_server", "server"}
Unbuilt == "unbuilt"

Environments ==
    [SUPABASE_URL : {None, "", "url"}, SUPABASE_KEY : {None, "key"},
     SUPABASE_SERVICE_ROLE_KEY : {None, "service"}, SUPABASE_ANON_KEY : {None, "anon"}]

\* bool(v) of what os.getenv returns: None and the empty string are false
Truthy(v) == v \notin {None, ""}

ConfigError == "SUPABASE_URL and SUPABASE_KEY environment variables must be set"
McpConfigError ==
    "SUPABASE_URL and either SUPABASE_SERVICE_ROLE_KEY or SUPABASE_ANON_KEY environment variables must be set"

\* server.py __init__: the message of the ValueError it raises, "" when it returns
__init__(env) ==
    LET supabase_url == env.SUPABASE_URL
        supabase_key == env.SUPABASE_KEY
    IN IF ~Truthy(supabase_url) \/ ~Truthy(supabase_key) THEN ConfigError ELSE ""

\* a constructor that looks at the url only
Mcp__init__UrlOnly(env) == IF ~Truthy(env.SUPABASE_URL) THEN McpConfigError ELSE ""

\* mcp_server.py __init__: the service role key first, then the anon key
Mcp__init__(env) ==
    LET supabase_url == env.SUPABASE_URL
        supabase_key == IF Truthy(env.SUPABASE_SERVICE_ROLE_KEY) THEN env.SUPABASE_SERVICE_ROLE_KEY
                        ELSE env.SUPABASE_ANON_KEY
    IN IF ~Truthy(supabase_url) \/ ~Truthy(supabase_key) THEN McpConfigError ELSE ""

\* simple_server.py __init__
Simple__init__(env) ==
    LET supabase_url == env.SUPABASE_URL
        supabase_key == env.SUPABASE_KEY
    IN IF ~Truthy(supabase_url) \/ ~Truthy(supabase_key) THEN ConfigError ELSE ""

ConstructRecord(server, error) ==
    [NoMessage EXCEPT !.server = server, !.exc = error, !.line = "construct"]

\* the statement that constructs the object; the ValueError ends the program
Construct(server, error) ==
    /\ closed[server] = Unbuilt
    /\ closed' = [closed EXCEPT ![server] = error]
    /\ last' = ConstructRecord(server, error)
    /\ UNCHANGED <<notes, projects, cache, now, initialized, refused, calls, tasks, running, environ>>

\* mcp_server.py main: server = VoiceNotesMCPServer()
McpConstruct == Construct("mcp_server", Mcp__init__(environ))
\* simple_server.py main: server = SimpleVoiceNotesMCPServer()
SimpleConstruct == Construct("simple_server", Simple__init__(environ))
\* server.py: voice_notes_server = VoiceNotesMCPServer(), when the module is loaded
ServerConstruct == Construct("server", __init__(environ))

ConstructMessages ==
    {[method |-> m, id |-> "7", params |-> EmptyDict] : m \in {"initialize", "tools/list"}}
    \cup {[method |-> "tools/call", id |-> "7",
           params |-> [name |-> "read_note", arguments |-> [note_id |-> "n1"]]]}

ConstructHandleMessage == HandleMessageOf(ConstructMessages)
ConstructSimpleHandleMessage == SimpleHandleMessageOf(ConstructMessages)

\* server.py: a tools/call served by the handlers of the loaded module
ConstructCall ==
    /\ closed["server"] = ""
    /\ calls < MaxConstructCalls
    /\ \E a \in NoteArgs : \E r \in {handle_call_tool("read_note", a, Env(TRUE, FALSE), 0)} :
          /\ cache' = r.cache
          /\ notes' = r.notes
          /\ projects' = r.projects
          /\ last' = [NoMessage EXCEPT !.server = "server", !.method = "tools/call", !.name = "read_note",
                                       !.response = r.result, !.gw = r.gw, !.called = TRUE, !.line = "call"]
    /\ calls' = calls + 1
    /\ UNCHANGED <<now, initialized, refused, closed, tasks, running, environ>>

ConstructInit ==
    /\ StoreInit
    /\ cache = EmptyDict
    /\ now = 0
    /\ initialized = FALSE
    /\ refused = {}
    /\ last = NoMessage
    /\ calls = 0
    /\ closed = [s \in Servers |-> Unbuilt]
    /\ tasks = NoTasks
    /\ running = None
    /\ environ \in Environments

ConstructNext ==
    \/ McpConstruct \/ SimpleConstruct \/ ServerConstruct
    \/ ConstructHandleMessage \/ ConstructSimpleHandleMessage \/ ConstructCall

ConstructSpec == ConstructInit /\ [][ConstructNext]_vars

----------------------------------------------------------------------------
(* Claims about the catalog, the cache keys, the construction and the frames *)

\* the names of the tools of a tools/list result
CatalogNames(response) == {response.result.tools[i].name : i \in 1..Len(response.result.tools)}

\* C31: while the session is Initialized, tools/list returns the same static catalog
\* on every call, whatever was handled before, and the catalog is exactly the twelve
\* tools list_unprocessed_notes, read_note, mark_as_processed, bulk_mark_processed,
\* search_notes, get_inbox_stats, list_projects, get_project, create_project,
\* update_project, get_notes_by_project, assign_note_to_project.
C31_StaticCatalogOfTwelve ==
    (last.server = "mcp_server" /\ last.method = "tools/list" /\ last.was) =>
        /\ IsResult(last.response)
        /\ last.response.result = [tools |-> McpCatalog]
        /\ CatalogNames(last.response) = ToolNames

\* the parameters a read tool runs with, after handle_call_tool's defaults
EffectiveArgs(tool, arguments) ==
    CASE tool = "list_unprocessed_notes" -> Effective(arguments)
      [] tool = "get_notes_by_project" -> <<arguments["project_id"]>> \o Effective(arguments)
      [] tool = "read_note" -> <<arguments["note_id"]>>
      [] tool = "search_notes" ->
            <<arguments["query"], Get(arguments, "include_processed", FALSE), Get(arguments, "limit", 20)>>
      [] tool = "list_projects" -> <<Get(arguments, "include_archived", FALSE)>>
      [] tool = "get_project" -> <<arguments["project_id"]>>
      [] OTHER -> << >>

\* two consecutive calls of read tools that both used a cache key
KeyedPair == /\ last.tool \in ReadTools /\ last.key # ""
             /\ last.prev.tool \in ReadTools /\ last.prev.key # ""
SameCall == /\ last.tool = last.prev.tool
            /\ EffectiveArgs(last.tool, last.arguments) = EffectiveArgs(last.prev.tool, last.prev.arguments)

\* C32: two calls of read tools use the same cache key if and only if they name the
\* same tool and have the same parameters after defaulting, so that no call is served
\* a result that was cached for another tool or for other parameters.
C32_KeysInjective ==
    KeyedPair => ((last.key = last.prev.key) <=> SameCall)

\* both configuration values, the endpoint URL and an access credential, are set
ConfiguredFor(server) ==
    /\ Truthy(environ.SUPABASE_URL)
    /\ IF server = "mcp_server"
       THEN Truthy(environ.SUPABASE_SERVICE_ROLE_KEY) \/ Truthy(environ.SUPABASE_ANON_KEY)
       ELSE Truthy(environ.SUPABASE_KEY)

\* the construction was attempted and raised
ConstructionFailed(server) == closed[server] \notin {Unbuilt, "", "eof"}

\* C33: constructing a server without both configuration values fails at construction
\* with an error that names the settings, and no request is ever handled by a server
\* that lacks them.
C33_UnconfiguredNeverServes ==
    \A s \in Servers :
        /\ ~ConfiguredFor(s) =>
              /\ closed[s] # ""
              /\ closed[s] # Unbuilt =>
                    /\ Contains(closed[s], "SUPABASE_URL")
                    /\ Contains(closed[s], "KEY")
                    /\ Contains(closed[s], "must be set")
        /\ (last.server = s /\ last.line # "construct") => ConfiguredFor(s)
        /\ ConfiguredFor(s) => ~ConstructionFailed(s)

\* a construction has failed for want of a setting while another server, whose
\* settings are there, has answered a request
C33_Witness ==
    \E s, t \in Servers :
        /\ ~ConfiguredFor(s) /\ ConstructionFailed(s)
        /\ ConfiguredFor(t) /\ last.server = t /\ last.line \in {"object", "call"}

\* the keys _invalidate_note_cache(n) names
NoteKey(k, n) == StartsWith(k, "unprocessed_") \/ k = "note_" \o n \/ k = "inbox_stats"

\* the step is a mark_as_processed that updated its note, the one tool that calls
\* _invalidate_note_cache and nothing else on the cache
MarkedNow == calls' = calls + 1 /\ Marked(last')

\* C34: _invalidate_note_cache(n) removes only the keys starting unprocessed_, the key
\* note_<n> and the key inbox_stats; every other entry of the cache is still there
\* afterwards with its value unchanged.
C34_InvalidationFrame ==
    [][MarkedNow =>
          /\ DOMAIN cache' \subseteq DOMAIN cache
          /\ \A k \in DOMAIN cache :
                IF NoteKey(k, last'.arguments.note_id)
                THEN k \in Live(cache) => k \notin DOMAIN cache'
                ELSE k \in DOMAIN cache' /\ cache'[k] = cache[k]]_vars

\* a mark_as_processed has removed an inbox listing and left another live entry
C34_Witness ==
    /\ Marked(last)
    /\ \E k \in last.before : StartsWith(k, "unprocessed_")
    /\ \E k \in last.before \cap Live(cache) : ~NoteKey(k, last.arguments.note_id)

\* the note is out of the inbox: it is marked processed or refers to a project
ProcessedIn(nts, n) == nts[n].is_processed \/ nts[n].project_id # NULL

NoteMutated == calls' = calls + 1 /\ last'.tool \in NoteMutations /\ Success(last')
InboxListed == calls' = calls + 1 /\ last'.tool = "list_unprocessed_notes" /\ NoError(last')

\* C35: once a successful mark_as_processed, bulk_mark_processed or
\* assign_note_to_project has processed a note, no later list_unprocessed_notes call,
\* cached or not, returns the note: the mutation leaves the note processed, no tool
\* resets processed or clears a project reference, and no listing returns a note that
\* is processed when the listing is returned.
C35_ProcessedNeverListed ==
    [][/\ \A n \in DOMAIN notes : ProcessedIn(notes, n) => (n \in DOMAIN notes' /\ ProcessedIn(notes', n))
       /\ NoteMutated => \A n \in MutatedNotes(last') \cap DOMAIN notes' : ProcessedIn(notes', n)
       /\ InboxListed => \A i \in 1..Len(last'.result.notes) :
                            ~ProcessedIn(notes', last'.result.notes[i].id)]_vars

\* an inbox listing was cached, a mutation then processed a note, and the same
\* listing was asked for again and fetched anew
C35_Witness ==
    /\ last.tool = "list_unprocessed_notes" /\ NoError(last) /\ ~last.hit
    /\ last.prev.tool \in NoteMutations /\ Success(last.prev)
    /\ last.key \in last.prev.before
    /\ \E n \in MutatedNotes(last.prev) \cap DOMAIN notes : ProcessedIn(notes, n)

\* the last call is a search_notes that leaves the processed notes out
SearchedUnprocessed ==
    /\ last.tool = "search_notes"
    /\ NoError(last)
    /\ ~Get(last.arguments, "include_processed", FALSE)

\* C36: after a successful mark_as_processed(n), bulk_mark_processed containing n or
\* assign_note_to_project(n, p), a search_notes(q, include_processed=false, limit) does
\* not return n, also when the same search was called and cached before the mutation.
C36_SearchLeavesOutProcessed ==
    SearchedUnprocessed =>
        \A i \in 1..Len(last.result.notes) : ~notes[last.result.notes[i].id].is_processed

\* the cache key a read tool builds from its parameters
CacheKeyOf(tool, arguments) ==
    LET e == EffectiveArgs(tool, arguments)
    IN CASE tool = "list_unprocessed_notes" ->
                "unprocessed_" \o ToString(e[1]) \o "_" \o ToString(e[2])
         [] tool = "read_note" -> "note_" \o e[1]
         [] tool = "search_notes" -> "search_" \o e[1] \o "_" \o BoolStr(e[2]) \o "_" \o ToString(e[3])
         [] tool = "get_inbox_stats" -> "inbox_stats"
         [] tool = "list_projects" -> "projects_" \o BoolStr(e[1])
         [] tool = "get_project" -> "project_" \o e[1]
         [] tool = "get_notes_by_project" ->
                "project_notes_" \o e[1] \o "_" \o ToString(e[2]) \o "_" \o ToString(e[3])

\* the call is a read tool's and ended with an error: a Gateway error or a row not found
ErrorRead(l) == l.tool \in ReadTools /\ ~NoError(l)

\* C37: error and not-found outcomes are never stored in the cache: after a read tool
\* call that ended with a Gateway error or a not-found result the cache has no entry
\* for the call's key and no entry that holds an error, and the next identical call
\* issues a fresh Gateway request.
C37_ErrorsNotCached ==
    [][/\ (calls' = calls + 1 /\ ErrorRead(last')) =>
             /\ CacheKeyOf(last'.tool, last'.arguments) \notin Live(cache')
             /\ \A k \in DOMAIN cache' : "error" \notin DOMAIN cache'[k].value
       /\ (calls' = calls + 1 /\ last'.tool \in ReadTools /\ last'.key # "") =>
             last'.key = CacheKeyOf(last'.tool, last'.arguments)
       /\ (calls' = calls + 1 /\ ErrorRead(last) /\ last'.tool = last.tool
             /\ last'.arguments = last.arguments /\ now' = now) =>
             (~last'.hit /\ last'.gw >= 1)]_vars

\* a read that the Gateway failed was followed by the same read, which the Gateway
\* answered and the cache now holds
C37_Witness ==
    /\ last.tool \in ReadTools
    /\ ErrorRead(last.prev) /\ last.prev.gw >= 1
    /\ last.tool = last.prev.tool /\ last.arguments = last.prev.arguments
    /\ NoError(last) /\ ~last.hit /\ last.gw >= 1
    /\ last.key \in Live(cache)

SingleRowTools == {"mark_as_processed", "assign_note_to_project", "update_project", "create_project"}

\* the step is a call of a single-row mutating tool that did not succeed
SingleRowFailed == calls' = calls + 1 /\ last'.tool \in SingleRowTools /\ ~Success(last')
\* the step is a bulk_mark_processed that the Gateway answered
BulkMarked == calls' = calls + 1 /\ last'.tool = "bulk_mark_processed" /\ Success(last')

\* C38: a mark_as_processed, assign_note_to_project, update_project or create_project
\* that does not succeed (no row affected, or a Gateway error) leaves the cache exactly
\* as it was; bulk_mark_processed invalidates the entries of all the ids requested,
\* however many rows were affected.
C38_FailureKeepsCache ==
    [][/\ SingleRowFailed => cache' = cache
       /\ BulkMarked => \A i \in 1..Len(last'.arguments.note_ids) :
                           NoNoteEntries(Live(cache'), last'.arguments.note_ids[i])]_vars

\* a single-row tool failed and left an inbox listing in the cache; a
\* bulk_mark_processed that updated no row then removed it
C38_Witness ==
    /\ last.tool = "bulk_mark_processed" /\ Success(last)
    /\ last.result.processed_count = 0
    /\ \E k \in last.before : StartsWith(k, "unprocessed_")
    /\ last.prev.tool \in SingleRowTools /\ ~Success(last.prev)
    /\ last.prev.before = last.before
    /\ \A k \in Live(cache) : ~StartsWith(k, "unprocessed_")

\* the step handles an initialize request on the session that is already initialized
InitializedAgain ==
    /\ initialized
    /\ last' # last
    /\ last'.server = "mcp_server" /\ last'.method = "initialize"

\* C39: the session state is monotone: once Initialized no message of any kind (a
\* repeated initialize, an unknown method, a failing tools/call, a malformed line)
\* returns the session to Uninitialized, and a repeated initialize is answered with
\* the same result and leaves the session Initialized.
C39_SessionMonotone ==
    [][/\ initialized => initialized'
       /\ InitializedAgain => /\ last'.response = ResultResponse(last'.id, InitializeResult)
                              /\ initialized']_vars

\* the initialized session has handled a tools/call that raised, then a malformed
\* line or a repeated initialize, and is initialized still
C39_Witness ==
    /\ initialized
    /\ last.server = "mcp_server" /\ last.was
    /\ last.after_error
    /\ last.line = "malformed" \/ last.method = "initialize"

\* the step reads a line that is blank or is not JSON
BadLineRead == last' # last /\ last'.line \in {"blank", "malformed"}

\* C40: an input line that is blank or is not valid JSON produces no output line,
\* leaves the session state, the store and the cache unchanged, and does not stop the
\* loop, which goes on to read the next line from the state it was in.
C40_BadLineSkipped ==
    [][BadLineRead =>
          /\ last'.response = NoResponse
          /\ ~last'.called /\ last'.gw = 0
          /\ UNCHANGED <<notes, projects, cache, initialized, refused, closed>>
          /\ closed'[last'.server] = ""]_vars

\* each loop has read a bad line on a session that holds state and is running still
C40_Witness ==
    /\ last.line \in {"blank", "malformed"}
    /\ last.server \in {"mcp_server", "simple_server"}
    /\ closed[last.server] = ""
    /\ last.server = "mcp_server" => initialized
    /\ last.after_error

====
